---- MODULE Spec2Model ----
(***************************************************************************)
(* A model of the entity lifecycle and synchronisation core of             *)
(* dreamlab-core: the game facade of createGame (src/src/network/client.ts, *)
(* lines 272-571), its dual-rate frame callback onTick, and the synced      *)
(* value primitive (src/src/network/sync.ts).                               *)
(*                                                                         *)
(* JavaScript runs one piece of synchronous code at a time.  The variable  *)
(* pc says which synchronous code is running: "idle" (nothing: the event   *)
(* loop is between tasks), a position inside onTick, or a position inside  *)
(* shutdown's map loop.  An `await` parks the rest of an async function in  *)
(* the set tasks; its continuation runs only when pc = "idle".              *)
(***************************************************************************)
EXTENDS Integers, Sequences, FiniteSets, TLC

VARIABLES
    isServer,        \* options.isServer; renderContext is defined iff ~isServer
    time,            \* client.ts:292  let time (ms, the last performance.now())
    physicsTickAcc,  \* client.ts:293  let physicsTickAcc (a double)
    pc,              \* the synchronous code that is running
    it,              \* the position of the running for-of / map iterator
    frames,          \* number of frame callbacks started so far
    acc0,            \* physicsTickAcc when the running frame callback began
    frameDelta,      \* `delta` of the running frame callback (ms)
    ticksDone,       \* fixed ticks begun since the game was created
    calls,           \* what the running frame callback has invoked, in order
    cur,             \* the listener or entity whose callback is running
    snapListeners,   \* the tick listeners registered when the listener pass began
    snapEnts,        \* the entity list when the running pass over it began
    entities,        \* client.ts:282  const entities: Entity[]
    spawnables,      \* client.ts:283  const spawnables: Map<string, SpawnableEntity>
    tickListeners,   \* client.ts:289  const tickListeners: Set<TickListener>
    running,         \* the frame ticker / interval timer has not been stopped
    kind,            \* each entity object: "none" (not constructed), "plain", "spawnable"
    uidOf,           \* entity.uid of each spawnable entity
    priority,        \* entity.priority of each entity, None when undefined
    stepless,        \* the entities whose onPhysicsStep is not a function
    frameless,       \* the entities whose onRenderFrame is not a function
    data,            \* dataManager: simulation data of each entity
    renderData,      \* dataManager: render data of each entity
    tasks,           \* async calls parked at an await
    nextId,          \* number of async calls parked so far (the last task id)
    shutdownAt,      \* progress of shutdown(): "no", "map", "await", "done"
    mapLen,          \* the length entities.map read when shutdown's loop began
    teardowns,       \* how many times each entity's teardown has been called
    tdLookup,        \* what lookup(entity.uid) returned inside teardown
    tdrLookup,       \* what lookup(entity.uid) returned inside teardownRenderContext
    network,         \* client.ts:295  let network: is it defined?
    dataNetwork,     \* client.ts:352, 359  clientData.network / serverData.network: is it defined?
    svValue,         \* sync.ts:62  let value, of one synced value
    svWrapped,       \* the stored value is the proxy onChange returned
    svDestroyed,     \* sync.ts:48  let destroyed
    lastOp,          \* the last operation on the synced value and what it did
    spawnableFunctions, \* client.ts:288  const spawnableFunctions: Map<string, fn>
    madeBy,          \* the type name and constructor each spawned entity was made with
    regLog,          \* the first constructor registered per name, and the last register call
    spawnOut,        \* how the last spawn call left its synchronous part
    batch,           \* the spawnMany call: its definitions, jobs and outcome
    physEntities,    \* physics.ts:26  const entities: Map<string, Set<Body>>
    world,           \* engine.world.bodies: how many times each body is in the array
    physOut,         \* the last call on the physics adapter and what it did
    tagsOf,          \* entity.tags of each entity
    queryOut,        \* the last queryTags call and what it returned
    isPlatformActive, \* part_001:13  Platform.isPlatformActive
    bodyMask,        \* part_001:92  this.body.collisionFilter.mask of the platform
    platStep         \* the last Platform.onPhysicsStep call: what it read

schedVars == <<time, physicsTickAcc, frames, acc0, frameDelta, ticksDone>>
loopVars == <<pc, it, cur, calls, snapListeners, snapEnts>>
entVars == <<entities, spawnables, kind, uidOf, data, renderData, tasks, nextId>>
obsVars == <<teardowns, tdLookup, tdrLookup>>
gameVars == <<isServer, priority, stepless, frameless, tickListeners, running,
              shutdownAt, mapLen>>

netVars == <<network, dataNetwork>>
svVars == <<svValue, svWrapped, svDestroyed, lastOp>>

regVars == <<spawnableFunctions, madeBy, regLog, spawnOut, batch>>
physVars == <<physEntities, world, physOut>>
queryVars == <<tagsOf, queryOut>>
platVars == <<isPlatformActive, bodyMask, platStep>>
restVars == <<netVars, svVars, physVars, queryVars, platVars>>

vars == <<schedVars, loopVars, entVars, obsVars, gameVars, netVars, svVars,
          regVars, physVars, queryVars, platVars>>

(***************************************************************************)
(* Bounds of the model.                                                    *)
(***************************************************************************)
NumEnts == 2
NumUids == 2
NumListeners == 2
MaxFrames == 2
MaxGameFrames == 1
MaxPriority == 1
MaxCalls == 3
MaxTickCalls == 1
MaxPassCalls == 1
NumNames == 2
NumFns == 2
MaxBatch == 2
NumBodies == 2
MaxWorld == 2
NumTags == 2
MaxTagList == 2

Ents == 1..NumEnts
Camera == 0
AllEnts == {Camera} \cup Ents
Uids == 1..NumUids
Listeners == 1..NumListeners
\* Entity type names, and the constructor functions that can be registered.
Names == 1..NumNames
Fns == 1..NumFns
Bodies == 1..NumBodies
Tags == 1..NumTags
\* `undefined` where an entity is expected, and where a UID is expected.
None == 0 - 1

\* What the data registry holds for an entity whose data was never set.
NotSet == <<"not initialized">>
\* The callback has not been called.
NotCalled == 0 - 2

(***************************************************************************)
(* IEEE-754 doubles.  A non-negative double below 2^16 that is a multiple  *)
(* of 2^-48 is the tuple <<i, f1, f2, f3>> of its integer part and the     *)
(* three 16-bit limbs of its 48-bit fraction.  Every value the accumulator *)
(* takes is such a multiple: the period 1000/60 has a 5-bit integer part   *)
(* and so 48 fraction bits, and sums and differences of multiples of 2^-48 *)
(* are multiples of 2^-48.  A result of 32 or more has fewer than 48       *)
(* fraction bits and is rounded to nearest, ties to even (DblRound).       *)
(***************************************************************************)
LimbBase == 2^16

Dbl(ms) == <<ms, 0, 0, 0>>

DblGeq(x, y) ==
    \/ x[1] > y[1]
    \/ x[1] = y[1] /\ x[2] > y[2]
    \/ x[1] = y[1] /\ x[2] = y[2] /\ x[3] > y[3]
    \/ x[1] = y[1] /\ x[2] = y[2] /\ x[3] = y[3] /\ x[4] >= y[4]

\* The exact sum of two values.
ExactAdd(x, y) ==
    LET s3 == x[4] + y[4]
        s2 == x[3] + y[3] + (s3 \div LimbBase)
        s1 == x[2] + y[2] + (s2 \div LimbBase)
    IN  <<x[1] + y[1] + (s1 \div LimbBase), s1 % LimbBase, s2 % LimbBase, s3 % LimbBase>>

\* The exact difference x - y, for x >= y.
ExactSub(x, y) ==
    LET t3 == x[4] - y[4]
        b3 == IF t3 < 0 THEN 1 ELSE 0
        t2 == x[3] - y[3] - b3
        b2 == IF t2 < 0 THEN 1 ELSE 0
        t1 == x[2] - y[2] - b2
        b1 == IF t1 < 0 THEN 1 ELSE 0
    IN  <<x[1] - y[1] - b1, t1 + b1 * LimbBase, t2 + b2 * LimbBase, t3 + b3 * LimbBase>>

BitLen(n) == CHOOSE k \in 0..16 : (k = 0 \/ 2^(k-1) <= n) /\ n < 2^k

\* The spacing, in units of 2^-48, of the doubles around x: a double has 53
\* significant bits, so a value with a b-bit integer part keeps 53 - b
\* fraction bits.
Quantum(x) == IF x[1] < 32 THEN 1 ELSE 2^(BitLen(x[1]) - 5)

\* Round an exact value to the nearest double, ties to even.
DblRound(x) ==
    LET q    == Quantum(x)
        r    == x[4] % q
        down == <<x[1], x[2], x[3], x[4] - r>>
        odd  == ((x[4] - r) \div q) % 2 = 1
        up   == 2 * r > q \/ (2 * r = q /\ odd)
    IN  IF r = 0 THEN x
        ELSE IF up THEN ExactAdd(down, <<0, 0, 0, q>>)
        ELSE down

\* a + b and a - b on doubles (client.ts:302, 305).
DblAdd(x, y) == DblRound(ExactAdd(x, y))
DblSub(x, y) == DblRound(ExactSub(x, y))

\* 1000 / rate as a double (client.ts:291), for 16 <= 1000/rate < 2^16: long
\* division to 48 fraction bits, the remainder deciding the rounding.
DblDiv1000(rate) ==
    LET i  == 1000 \div rate
        r0 == 1000 % rate
        f1 == (r0 * LimbBase) \div rate
        r1 == (r0 * LimbBase) % rate
        f2 == (r1 * LimbBase) \div rate
        r2 == (r1 * LimbBase) % rate
        f3 == (r2 * LimbBase) \div rate
        r3 == (r2 * LimbBase) % rate
        x  == <<i, f1, f2, f3>>
        q  == Quantum(x)
        r  == f3 % q
        down == <<i, f1, f2, f3 - r>>
        odd  == ((f3 - r) \div q) % 2 = 1
        \* the discarded part is (r + r3/rate) units; compare it with q/2
        up   == \/ 2 * r > q
                \/ 2 * r = q /\ (r3 > 0 \/ odd)
                \/ q = 1 /\ (2 * r3 > rate \/ (2 * r3 = rate /\ odd))
    IN  IF up THEN ExactAdd(down, <<0, 0, 0, q>>) ELSE down

PhysicsTickrate == 60
physicsTickDelta == DblDiv1000(PhysicsTickrate)

(***************************************************************************)
(* Helpers on arrays, with JavaScript's results: indexOf gives the first   *)
(* position (here 1-based, 0 for "not found"), splice(i, 1) removes one    *)
(* element, sort is stable.                                                *)
(***************************************************************************)
IndexOf(seq, e) ==
    IF \E i \in 1..Len(seq) : seq[i] = e
    THEN CHOOSE i \in 1..Len(seq) : seq[i] = e /\ \A j \in 1..(i-1) : seq[j] # e
    ELSE 0

Splice(seq, i) == SubSeq(seq, 1, i - 1) \o SubSeq(seq, i + 1, Len(seq))

Range(seq) == {seq[i] : i \in 1..Len(seq)}

\* Insert e into a list sorted by pr, after the elements that do not compare
\* greater: where a stable sort leaves the element that came last.
InsertByPriority(sorted, e, pr) ==
    LET k == Cardinality({i \in 1..Len(sorted) : pr[sorted[i]] <= pr[e]})
    IN  SubSeq(sorted, 1, k) \o <<e>> \o SubSeq(sorted, k + 1, Len(sorted))

RECURSIVE StableSort(_, _)
StableSort(seq, pr) ==
    IF seq = <<>> THEN <<>>
    ELSE InsertByPriority(StableSort(SubSeq(seq, 1, Len(seq) - 1), pr), seq[Len(seq)], pr)

\* An entity without priority counted above every priority.
PriorityLast(e) == IF priority[e] = None THEN MaxPriority + 1 ELSE priority[e]

\* a.priority ?? 0
PriorityOf(e) == IF priority[e] = None THEN 0 ELSE priority[e]

\* client.ts:344-346
sortEntities(list) == StableSort(list, [e \in AllEnts |-> PriorityOf(e)])

\* client.ts:281, 321, 420, 443: `if (renderContext)`
renderContext == ~isServer

\* client.ts:487-489
lookup(uid) == spawnables[uid]

\* The values init and initRenderContext of an entity resolve to.
InitResult(e) == <<"data", e>>
RenderResult(e) == <<"render", e>>

\* dataManager.getData(entity) / getRenderData(entity): the stored value, or
\* the "not initialized" error thrown when none was stored.
NotInitialized == <<"throws", "Error", "not initialized">>
getData(e) == IF data[e] = NotSet THEN NotInitialized ELSE data[e]
getRenderData(e) == IF renderData[e] = NotSet THEN NotInitialized ELSE renderData[e]

\* No synchronous code is running and no continuation is queued as a
\* microtask: the event loop may start the next task.
Idle == pc = "idle" /\ ~\E t \in tasks : t.at = "resume"

\* A callback handed to user code is running: it may call the facade.
InCallback == pc \in {"inListener", "inPhysics", "inRender"}

CanCall == Idle \/ InCallback

Task(op, e, at, by) == [id |-> nextId + 1, op |-> op, ent |-> e, at |-> at, by |-> by]

Moved(t, at) == (tasks \ {t}) \cup {[t EXCEPT !.at = at]}

\* The entity object a constructor call returns: one not handed out before.
FreshEnt == CHOOSE e \in Ents : kind[e] = "none" /\ \A f \in Ents : kind[f] = "none" => e <= f

(***************************************************************************)
(* Game.instantiate (client.ts:407-429) and Game.spawn (client.ts:452-476) *)
(***************************************************************************)

\* instantiate(entity), up to `await entity.init(init)`.
Instantiate(e) ==
    /\ CanCall
    /\ e \in Ents
    /\ \/ kind[e] = "plain"
       \/ kind[e] = "none" /\ e = FreshEnt
    /\ kind' = [kind EXCEPT ![e] = "plain"]
    /\ tasks' = tasks \cup {Task("instantiate", e, "init", "user")}
    /\ nextId' = nextId + 1
    /\ UNCHANGED <<entities, spawnables, uidOf, data, renderData>>
    /\ UNCHANGED <<schedVars, loopVars, obsVars, gameVars>>
    /\ UNCHANGED <<restVars, regVars>>

\* The type name and the constructor that registerDefaultSpawnables
\* (client.ts:567) registers while the game is created.
DefaultName == CHOOSE n \in Names : \A m \in Names : n <= m
DefaultFn == CHOOSE f \in Fns : \A g \in Fns : f <= g

\* Game.register (client.ts:396-405) that replaces a registered constructor.
RegisterOverwrite(name, fn) ==
    /\ CanCall
    /\ spawnableFunctions' = [spawnableFunctions EXCEPT ![name] = fn]
    /\ regLog' = [first |-> IF regLog.first[name] = None
                            THEN [regLog.first EXCEPT ![name] = fn]
                            ELSE regLog.first,
                  name |-> name, fn |-> fn, had |-> spawnableFunctions[name] # None,
                  threw |-> FALSE]
    /\ UNCHANGED <<madeBy, spawnOut, batch>>
    /\ UNCHANGED <<schedVars, loopVars, entVars, obsVars, gameVars, restVars>>

\* Game.register (client.ts:396-405).
Register(name, fn) ==
    /\ CanCall
    /\ IF spawnableFunctions[name] # None
       THEN /\ regLog' = [regLog EXCEPT !.name = name, !.fn = fn, !.had = TRUE,
                                         !.threw = TRUE]
            /\ UNCHANGED spawnableFunctions
       ELSE /\ spawnableFunctions' = [spawnableFunctions EXCEPT ![name] = fn]
            /\ regLog' = [first |-> [regLog.first EXCEPT ![name] = fn],
                          name |-> name, fn |-> fn, had |-> FALSE, threw |-> FALSE]
    /\ UNCHANGED <<madeBy, spawnOut, batch>>
    /\ UNCHANGED <<schedVars, loopVars, entVars, obsVars, gameVars, restVars>>

\* SpawnOf that constructs an entity with the default constructor when the
\* type name has no registered constructor.
SpawnOfAnyway(name, u) ==
    /\ CanCall
    /\ \E e \in Ents : kind[e] = "none"
    /\ LET e  == FreshEnt
           fn == IF spawnableFunctions[name] = None THEN DefaultFn
                 ELSE spawnableFunctions[name]
       IN  /\ kind' = [kind EXCEPT ![e] = "spawnable"]
           /\ uidOf' = [uidOf EXCEPT ![e] = u]
           /\ madeBy' = [madeBy EXCEPT ![e] = <<name, fn>>]
           /\ tasks' = tasks \cup {Task("spawn", e, "init", "user")}
    /\ nextId' = nextId + 1
    /\ spawnOut' = "pending"
    /\ UNCHANGED <<entities, spawnables, data, renderData>>
    /\ UNCHANGED <<spawnableFunctions, regLog, batch>>
    /\ UNCHANGED <<schedVars, loopVars, obsVars, gameVars, restVars>>

\* spawn(definition) of a schema-valid definition of type `name`
\* (client.ts:452-472): with no constructor registered it returns undefined;
\* otherwise it runs up to the `await entity.init(init)` inside
\* `await this.instantiate(entity)`.  u is definition.uid, or the identifier
\* cuid2.createId() generates.
SpawnOf(name, u) ==
    /\ CanCall
    /\ IF spawnableFunctions[name] = None
       THEN /\ spawnOut' = "undefined"
            /\ UNCHANGED <<entVars, madeBy>>
       ELSE /\ \E e \in Ents : kind[e] = "none"
            /\ LET e == FreshEnt
               IN  /\ kind' = [kind EXCEPT ![e] = "spawnable"]
                   /\ uidOf' = [uidOf EXCEPT ![e] = u]
                   /\ madeBy' = [madeBy EXCEPT ![e] = <<name, spawnableFunctions[name]>>]
                   /\ tasks' = tasks \cup {Task("spawn", e, "init", "user")}
            /\ nextId' = nextId + 1
            /\ spawnOut' = "pending"
            /\ UNCHANGED <<entities, spawnables, data, renderData>>
    /\ UNCHANGED <<spawnableFunctions, regLog, batch>>
    /\ UNCHANGED <<schedVars, loopVars, obsVars, gameVars, restVars>>

\* spawn(definition) of a valid definition of a default type.
Spawn(u) == SpawnOf(DefaultName, u)

\* client.ts:462: `uid: definition.uid ?? cuid2.createId()`; defUid is None
\* for a definition without uid, generated is what createId() returns.
ContextUid(defUid, generated) == IF defUid = None THEN generated ELSE defUid

\* spawn(loose) of a definition that fails schema validation:
\* SpawnableDefinitionSchema.parse (client.ts:453) throws, and the promise the
\* async function returned is rejected.
SpawnInvalid ==
    /\ CanCall
    /\ spawnOut' = "threw"
    /\ UNCHANGED <<spawnableFunctions, madeBy, regLog, batch>>
    /\ UNCHANGED <<schedVars, loopVars, entVars, obsVars, gameVars, restVars>>

(***************************************************************************)
(* Game.spawnMany (client.ts:478-485).  A definition is <<"valid", name,   *)
(* uid>> or <<"invalid", 0, 0>>.  definitions.map runs the synchronous part *)
(* of spawn for each definition in turn; a job is the entity being spawned, *)
(* None for a spawn that returned undefined, or Rejected.  batch.known is   *)
(* the set of type names that had a constructor when spawnMany was called.  *)
(***************************************************************************)
Rejected == 0 - 3

Constructs(def) == def[1] = "valid" /\ spawnableFunctions[def[2]] # None

\* The k-th entity object not handed out yet.
NthFree(k) ==
    CHOOSE e \in Ents :
        kind[e] = "none" /\ Cardinality({f \in Ents : kind[f] = "none" /\ f < e}) = k - 1

\* How many of the first i definitions construct an entity.
Rank(defs, i) == Cardinality({j \in 1..i : Constructs(defs[j])})

JobOf(defs, i) ==
    IF defs[i][1] = "invalid" THEN Rejected
    ELSE IF Constructs(defs[i]) THEN NthFree(Rank(defs, i))
    ELSE None

SpawnMany(defs) ==
    /\ CanCall
    /\ Rank(defs, Len(defs)) <= Cardinality({e \in Ents : kind[e] = "none"})
    /\ LET made == {i \in 1..Len(defs) : Constructs(defs[i])}
           idx(e) == CHOOSE i \in made : JobOf(defs, i) = e
           ents == {JobOf(defs, i) : i \in made}
       IN  /\ kind' = [e \in AllEnts |-> IF e \in ents THEN "spawnable" ELSE kind[e]]
           /\ uidOf' = [e \in AllEnts |-> IF e \in ents THEN defs[idx(e)][3] ELSE uidOf[e]]
           /\ madeBy' = [e \in AllEnts |->
                           IF e \in ents
                           THEN <<defs[idx(e)][2], spawnableFunctions[defs[idx(e)][2]]>>
                           ELSE madeBy[e]]
           /\ tasks' = tasks \cup
                  {[id |-> nextId + Rank(defs, i), op |-> "spawn", ent |-> JobOf(defs, i),
                    at |-> "init", by |-> "spawnMany"] : i \in made}
           /\ nextId' = nextId + Cardinality(made)
           /\ batch' = [state |-> "pending", defs |-> defs,
                        known |-> {n \in Names : spawnableFunctions[n] # None},
                        jobs |-> [i \in 1..Len(defs) |-> JobOf(defs, i)],
                        result |-> <<>>]
    /\ UNCHANGED <<entities, spawnables, data, renderData>>
    /\ UNCHANGED <<spawnableFunctions, regLog, spawnOut>>
    /\ UNCHANGED <<schedVars, loopVars, obsVars, gameVars, restVars>>

\* entities.filter(entity => entity !== undefined) (client.ts:482-484)
RECURSIVE FilterDefined(_)
FilterDefined(jobs) ==
    IF jobs = <<>> THEN <<>>
    ELSE IF jobs[1] = None THEN FilterDefined(Tail(jobs))
    ELSE <<jobs[1]>> \o FilterDefined(Tail(jobs))

\* spawnMany after `await Promise.all(jobs)` (client.ts:480-484): Promise.all
\* rejects once a job has rejected, and resolves when every job has resolved.
BatchSettle ==
    /\ pc = "idle"
    /\ batch.state = "pending"
    /\ IF \E i \in 1..Len(batch.jobs) : batch.jobs[i] = Rejected
       THEN batch' = [batch EXCEPT !.state = "rejected"]
       ELSE /\ ~\E t \in tasks : t.op = "spawn" /\ t.by = "spawnMany"
            /\ batch' = [batch EXCEPT !.state = "resolved",
                                      !.result = FilterDefined(batch.jobs)]
    /\ UNCHANGED <<spawnableFunctions, madeBy, regLog, spawnOut>>
    /\ UNCHANGED <<schedVars, loopVars, entVars, obsVars, gameVars, restVars>>

\* client.ts:427-428, and the return to the caller: instantiate's promise
\* resolves, and a spawn awaiting it is queued as a microtask.
PushEntity(t) ==
    /\ entities' = sortEntities(Append(entities, t.ent))
    /\ tasks' = IF t.op = "spawn" THEN Moved(t, "resume") ELSE tasks \ {t}

\* InitResolved with the entity appended before initRenderContext is awaited.
InitResolvedEager(t) ==
    /\ Idle
    /\ t \in tasks /\ t.at = "init"
    /\ data' = [data EXCEPT ![t.ent] = InitResult(t.ent)]
    /\ entities' = sortEntities(Append(entities, t.ent))
    /\ tasks' = IF renderContext THEN Moved(t, "initRender")
                ELSE IF t.op = "spawn" THEN Moved(t, "resume") ELSE tasks \ {t}
    /\ UNCHANGED <<spawnables, kind, uidOf, renderData, nextId>>
    /\ UNCHANGED <<schedVars, loopVars, obsVars, gameVars>>
    /\ UNCHANGED <<restVars, regVars>>

\* entity.init has resolved: client.ts:418-423.
InitResolved(t) ==
    /\ Idle
    /\ t \in tasks /\ t.at = "init"
    /\ data' = [data EXCEPT ![t.ent] = InitResult(t.ent)]
    /\ IF renderContext
       THEN tasks' = Moved(t, "initRender") /\ UNCHANGED entities
       ELSE PushEntity(t)
    /\ UNCHANGED <<spawnables, kind, uidOf, renderData, nextId>>
    /\ UNCHANGED <<schedVars, loopVars, obsVars, gameVars>>
    /\ UNCHANGED <<restVars, regVars>>

\* RenderResolved that stores the simulation data as render data.
RenderResolvedStoresData(t) ==
    /\ Idle
    /\ t \in tasks /\ t.at = "initRender"
    /\ renderData' = [renderData EXCEPT ![t.ent] = data[t.ent]]
    /\ PushEntity(t)
    /\ UNCHANGED <<spawnables, kind, uidOf, data, nextId>>
    /\ UNCHANGED <<schedVars, loopVars, obsVars, gameVars>>
    /\ UNCHANGED <<restVars, regVars>>

\* entity.initRenderContext has resolved: client.ts:424-428.
RenderResolved(t) ==
    /\ Idle
    /\ t \in tasks /\ t.at = "initRender"
    /\ renderData' = [renderData EXCEPT ![t.ent] = RenderResult(t.ent)]
    /\ PushEntity(t)
    /\ UNCHANGED <<spawnables, kind, uidOf, data, nextId>>
    /\ UNCHANGED <<schedVars, loopVars, obsVars, gameVars>>
    /\ UNCHANGED <<restVars, regVars>>

\* SpawnResume that returns the entity without inserting it in the map.
SpawnResumeSkipsMap(t) ==
    /\ pc = "idle"
    /\ t \in tasks /\ t.at = "resume"
    /\ tasks' = tasks \ {t}
    /\ UNCHANGED <<entities, spawnables, kind, uidOf, data, renderData, nextId>>
    /\ UNCHANGED <<schedVars, loopVars, obsVars, gameVars>>
    /\ UNCHANGED <<restVars, regVars>>

\* entity.init has rejected: `await entity.init(init)` (client.ts:418) throws
\* and the promise of instantiate is rejected, and with it the promise of a
\* spawn awaiting it (client.ts:472).  The call stays in tasks, settled, at
\* "rejected".
InitRejected(t) ==
    /\ Idle
    /\ t \in tasks /\ t.at = "init"
    /\ tasks' = Moved(t, "rejected")
    /\ UNCHANGED <<entities, spawnables, kind, uidOf, data, renderData, nextId>>
    /\ UNCHANGED <<schedVars, loopVars, obsVars, gameVars>>
    /\ UNCHANGED <<restVars, regVars>>

\* RenderRejected with the entity appended to the entity list all the same.
RenderRejectedListed(t) ==
    /\ Idle
    /\ t \in tasks /\ t.at = "initRender"
    /\ tasks' = Moved(t, "rejected")
    /\ entities' = sortEntities(Append(entities, t.ent))
    /\ UNCHANGED <<spawnables, kind, uidOf, data, renderData, nextId>>
    /\ UNCHANGED <<schedVars, loopVars, obsVars, gameVars>>
    /\ UNCHANGED <<restVars, regVars>>

\* entity.initRenderContext has rejected: `await entity.initRenderContext`
\* (client.ts:423) throws.
RenderRejected(t) ==
    /\ Idle
    /\ t \in tasks /\ t.at = "initRender"
    /\ tasks' = Moved(t, "rejected")
    /\ UNCHANGED <<entities, spawnables, kind, uidOf, data, renderData, nextId>>
    /\ UNCHANGED <<schedVars, loopVars, obsVars, gameVars>>
    /\ UNCHANGED <<restVars, regVars>>

\* spawn resumes after `await this.instantiate(entity)`: client.ts:473-475.
SpawnResume(t) ==
    /\ pc = "idle"
    /\ t \in tasks /\ t.at = "resume"
    /\ spawnables' = [spawnables EXCEPT ![uidOf[t.ent]] = t.ent]
    /\ tasks' = tasks \ {t}
    /\ UNCHANGED <<entities, kind, uidOf, data, renderData, nextId>>
    /\ UNCHANGED <<schedVars, loopVars, obsVars, gameVars>>
    /\ UNCHANGED <<restVars, regVars>>

(***************************************************************************)
(* Game.destroy (client.ts:431-450)                                        *)
(***************************************************************************)

\* What the entity's own UID looks up to, seen from one of its callbacks.
SelfLookup(e, map) == IF kind[e] = "spawnable" THEN map[uidOf[e]] ELSE None

\* DestroySync with the UID left in the spawnable map.
DestroySyncKeepsUid(e, by) ==
    LET idx == IndexOf(entities, e)
    IN  /\ UNCHANGED spawnables
        /\ IF idx = 0
           THEN UNCHANGED <<entities, tasks, nextId, obsVars>>
           ELSE /\ entities' = sortEntities(Splice(entities, idx))
                /\ nextId' = nextId + 1
                /\ IF renderContext
                   THEN /\ tasks' = tasks \cup {Task("destroy", e, "tdRender", by)}
                        /\ tdrLookup' = [tdrLookup EXCEPT ![e] = SelfLookup(e, spawnables)]
                        /\ UNCHANGED <<teardowns, tdLookup>>
                   ELSE /\ tasks' = tasks \cup {Task("destroy", e, "teardown", by)}
                        /\ teardowns' = [teardowns EXCEPT ![e] = @ + 1]
                        /\ tdLookup' = [tdLookup EXCEPT ![e] = SelfLookup(e, spawnables)]
                        /\ UNCHANGED tdrLookup

\* DestroySync that goes on to the teardown calls when the entity is not in
\* the entity list.
DestroySyncAlways(e, by) ==
    LET map == IF kind[e] = "spawnable"
               THEN [spawnables EXCEPT ![uidOf[e]] = None]
               ELSE spawnables
        idx == IndexOf(entities, e)
    IN  /\ spawnables' = map
        /\ entities' = IF idx = 0 THEN entities ELSE sortEntities(Splice(entities, idx))
        /\ nextId' = nextId + 1
        /\ IF renderContext
           THEN /\ tasks' = tasks \cup {Task("destroy", e, "tdRender", by)}
                /\ tdrLookup' = [tdrLookup EXCEPT ![e] = SelfLookup(e, map)]
                /\ UNCHANGED <<teardowns, tdLookup>>
           ELSE /\ tasks' = tasks \cup {Task("destroy", e, "teardown", by)}
                /\ teardowns' = [teardowns EXCEPT ![e] = @ + 1]
                /\ tdLookup' = [tdLookup EXCEPT ![e] = SelfLookup(e, map)]
                /\ UNCHANGED tdrLookup

\* DestroySync with the entity left in the entity list.
DestroySyncKeepsListed(e, by) ==
    LET map == IF kind[e] = "spawnable"
               THEN [spawnables EXCEPT ![uidOf[e]] = None]
               ELSE spawnables
        idx == IndexOf(entities, e)
    IN  /\ spawnables' = map
        /\ IF idx = 0
           THEN UNCHANGED <<entities, tasks, nextId, obsVars>>
           ELSE /\ entities' = sortEntities(entities)
                /\ nextId' = nextId + 1
                /\ IF renderContext
                   THEN /\ tasks' = tasks \cup {Task("destroy", e, "tdRender", by)}
                        /\ tdrLookup' = [tdrLookup EXCEPT ![e] = SelfLookup(e, map)]
                        /\ UNCHANGED <<teardowns, tdLookup>>
                   ELSE /\ tasks' = tasks \cup {Task("destroy", e, "teardown", by)}
                        /\ teardowns' = [teardowns EXCEPT ![e] = @ + 1]
                        /\ tdLookup' = [tdLookup EXCEPT ![e] = SelfLookup(e, map)]
                        /\ UNCHANGED tdrLookup

\* destroy(entity), up to its first await: in client mode
\* `await entity.teardownRenderContext(render)`, else `await entity.teardown(data)`.
DestroySync(e, by) ==
    LET map == IF kind[e] = "spawnable"
               THEN [spawnables EXCEPT ![uidOf[e]] = None]
               ELSE spawnables
        idx == IndexOf(entities, e)
    IN  /\ spawnables' = map
        /\ IF idx = 0
           THEN UNCHANGED <<entities, tasks, nextId, obsVars>>
           ELSE /\ entities' = sortEntities(Splice(entities, idx))
                /\ nextId' = nextId + 1
                /\ IF renderContext
                   THEN /\ tasks' = tasks \cup {Task("destroy", e, "tdRender", by)}
                        /\ tdrLookup' = [tdrLookup EXCEPT ![e] = SelfLookup(e, map)]
                        /\ UNCHANGED <<teardowns, tdLookup>>
                   ELSE /\ tasks' = tasks \cup {Task("destroy", e, "teardown", by)}
                        /\ teardowns' = [teardowns EXCEPT ![e] = @ + 1]
                        /\ tdLookup' = [tdLookup EXCEPT ![e] = SelfLookup(e, map)]
                        /\ UNCHANGED tdrLookup

Destroy(e) ==
    /\ CanCall
    /\ kind[e] # "none"
    /\ DestroySync(e, "user")
    /\ calls' = IF InCallback THEN Append(calls, <<"destroy", e>>) ELSE calls
    /\ UNCHANGED <<kind, uidOf, data, renderData>>
    /\ UNCHANGED <<schedVars, gameVars, pc, it, cur, snapListeners, snapEnts>>
    /\ UNCHANGED <<restVars, regVars>>

\* entity.teardownRenderContext has resolved: client.ts:448-449.
TeardownRenderResolved(t) ==
    /\ Idle
    /\ t \in tasks /\ t.at = "tdRender"
    /\ tasks' = Moved(t, "teardown")
    /\ teardowns' = [teardowns EXCEPT ![t.ent] = @ + 1]
    /\ tdLookup' = [tdLookup EXCEPT ![t.ent] = SelfLookup(t.ent, spawnables)]
    /\ UNCHANGED <<entities, spawnables, kind, uidOf, data, renderData, nextId, tdrLookup>>
    /\ UNCHANGED <<schedVars, loopVars, gameVars>>
    /\ UNCHANGED <<restVars, regVars>>

\* entity.teardown has resolved: destroy's promise resolves.
TeardownResolved(t) ==
    /\ Idle
    /\ t \in tasks /\ t.at = "teardown"
    /\ tasks' = tasks \ {t}
    /\ UNCHANGED <<entities, spawnables, kind, uidOf, data, renderData, nextId>>
    /\ UNCHANGED <<schedVars, loopVars, obsVars, gameVars>>
    /\ UNCHANGED <<restVars, regVars>>

(***************************************************************************)
(* Game.addTickListener / removeTickListener (client.ts:539-545).  A Set   *)
(* keeps insertion order; a running iterator is not disturbed by the       *)
(* deletion of an entry it has passed, and never yields a deleted entry.   *)
(***************************************************************************)
AddTickListener(l) ==
    /\ CanCall
    /\ tickListeners' = IF l \in Range(tickListeners) THEN tickListeners
                        ELSE Append(tickListeners, l)
    /\ calls' = IF InCallback THEN Append(calls, <<"add", l>>) ELSE calls
    /\ UNCHANGED <<entVars, schedVars, obsVars>>
    /\ UNCHANGED <<pc, it, cur, snapListeners, snapEnts>>
    /\ UNCHANGED <<isServer, priority, stepless, frameless, running, shutdownAt, mapLen>>
    /\ UNCHANGED <<restVars, regVars>>

\* RemoveTickListener on a list the running iterator reads by index, as an
\* array iterator does: the entry after a removed one is passed over.
RemoveTickListenerByIndex(l) ==
    /\ CanCall
    /\ LET j == IndexOf(tickListeners, l)
       IN  tickListeners' = IF j = 0 THEN tickListeners ELSE Splice(tickListeners, j)
    /\ calls' = IF InCallback THEN Append(calls, <<"remove", l>>) ELSE calls
    /\ UNCHANGED <<entVars, schedVars, obsVars>>
    /\ UNCHANGED <<pc, it, cur, snapListeners, snapEnts>>
    /\ UNCHANGED <<isServer, priority, stepless, frameless, running, shutdownAt, mapLen>>
    /\ UNCHANGED <<restVars, regVars>>

RemoveTickListener(l) ==
    /\ CanCall
    /\ LET j == IndexOf(tickListeners, l)
       IN  /\ tickListeners' = IF j = 0 THEN tickListeners ELSE Splice(tickListeners, j)
           /\ it' = IF pc \in {"listeners", "inListener"} /\ j # 0 /\ j <= it
                    THEN it - 1 ELSE it
    /\ calls' = IF InCallback THEN Append(calls, <<"remove", l>>) ELSE calls
    /\ UNCHANGED <<entVars, schedVars, obsVars>>
    /\ UNCHANGED <<pc, cur, snapListeners, snapEnts>>
    /\ UNCHANGED <<isServer, priority, stepless, frameless, running, shutdownAt, mapLen>>
    /\ UNCHANGED <<restVars, regVars>>

(***************************************************************************)
(* Game.shutdown (client.ts:547-564)                                       *)
(***************************************************************************)

\* shutdown() begins `entities.map(...)`: map reads the length once.
Shutdown ==
    /\ Idle
    /\ shutdownAt = "no"
    /\ shutdownAt' = "map"
    /\ mapLen' = Len(entities)
    /\ snapEnts' = entities
    /\ pc' = "shutdownMap" /\ it' = 0
    /\ nextId' = nextId + 1
    /\ UNCHANGED <<entities, spawnables, kind, uidOf, data, renderData, tasks>>
    /\ UNCHANGED <<schedVars, obsVars, cur, calls, snapListeners>>
    /\ UNCHANGED <<isServer, priority, stepless, frameless, tickListeners, running>>
    /\ UNCHANGED <<restVars, regVars>>

\* One turn of entities.map: index `it` of the array as it is now; map skips
\* an index the array no longer has.  The callback runs destroy(entity) up to
\* its first await.
ShutdownMapStep ==
    /\ pc = "shutdownMap" /\ it < mapLen
    /\ it' = it + 1
    /\ IF it + 1 <= Len(entities)
       THEN DestroySync(entities[it + 1], "shutdown")
       ELSE UNCHANGED <<entities, spawnables, tasks, nextId, obsVars>>
    /\ UNCHANGED <<kind, uidOf, data, renderData>>
    /\ UNCHANGED <<schedVars, gameVars, pc, cur, calls, snapListeners, snapEnts>>
    /\ UNCHANGED <<restVars, regVars>>

\* map has returned: `await Promise.all(jobs)`.
ShutdownMapEnd ==
    /\ pc = "shutdownMap" /\ it = mapLen
    /\ pc' = "idle"
    /\ shutdownAt' = "await"
    /\ UNCHANGED <<entVars, schedVars, obsVars, it, cur, calls, snapListeners, snapEnts>>
    /\ UNCHANGED <<isServer, priority, stepless, frameless, tickListeners, running, mapLen>>
    /\ UNCHANGED <<restVars, regVars>>

\* ShutdownResume that clears the physics world and leaves the frame ticker
\* and the interval timer running.
ShutdownResumeKeepsLoops ==
    /\ Idle
    /\ shutdownAt = "await"
    /\ ~\E t \in tasks : t.by = "shutdown"
    /\ shutdownAt' = "done"
    /\ world' = [b \in Bodies |-> 0]
    /\ UNCHANGED <<entVars, schedVars, obsVars, loopVars>>
    /\ UNCHANGED <<isServer, priority, stepless, frameless, tickListeners, mapLen, running>>
    /\ UNCHANGED <<netVars, svVars, queryVars, regVars, platVars, physEntities, physOut>>

\* Every job has resolved: client.ts:553-563 clears the physics world
\* (Matter.Composite.clear) and stops the frame ticker (client) or the
\* interval timer (server).
ShutdownResume ==
    /\ Idle
    /\ shutdownAt = "await"
    /\ ~\E t \in tasks : t.by = "shutdown"
    /\ shutdownAt' = "done"
    /\ running' = FALSE
    /\ world' = [b \in Bodies |-> 0]
    /\ UNCHANGED <<entVars, schedVars, obsVars, loopVars>>
    /\ UNCHANGED <<isServer, priority, stepless, frameless, tickListeners, mapLen>>
    /\ UNCHANGED <<netVars, svVars, queryVars, regVars, platVars, physEntities, physOut>>

(***************************************************************************)
(* createGame.onTick (client.ts:297-332), one step per loop turn.          *)
(* calls lists what the frame callback has invoked so far: <<"update", 0>> *)
(* for Matter.Engine.update, <<"listener", l>>, <<"physics", e>> and       *)
(* <<"render", e>> for the callbacks, and the facade calls the callbacks   *)
(* made: <<"destroy", e>>, <<"add", l>>, <<"remove", l>>.                  *)
(***************************************************************************)

\* OnTickBegin with the accumulator overwritten by the elapsed time.
OnTickBeginOverwrite(delta) ==
    /\ Idle /\ running
    /\ frames' = frames + 1
    /\ time' = time + delta
    /\ frameDelta' = delta
    /\ acc0' = physicsTickAcc
    /\ physicsTickAcc' = Dbl(delta)
    /\ calls' = <<>>
    /\ pc' = "while"
    /\ UNCHANGED <<it, cur, snapListeners, snapEnts, ticksDone>>
    /\ UNCHANGED <<entVars, obsVars, gameVars>>
    /\ UNCHANGED <<restVars, regVars>>

\* OnTickBegin with the elapsed time capped at 100 ms before it is added.
OnTickBeginCapped(delta) ==
    /\ Idle /\ running
    /\ frames' = frames + 1
    /\ time' = time + delta
    /\ frameDelta' = delta
    /\ acc0' = physicsTickAcc
    /\ physicsTickAcc' = DblAdd(physicsTickAcc, Dbl(IF delta > 100 THEN 100 ELSE delta))
    /\ calls' = <<>>
    /\ pc' = "while"
    /\ UNCHANGED <<it, cur, snapListeners, snapEnts, ticksDone>>
    /\ UNCHANGED <<entVars, obsVars, gameVars>>
    /\ UNCHANGED <<restVars, regVars>>

\* client.ts:298-302.  delta is performance.now() - time, in ms.
OnTickBegin(delta) ==
    /\ Idle /\ running
    /\ frames' = frames + 1
    /\ time' = time + delta
    /\ frameDelta' = delta
    /\ acc0' = physicsTickAcc
    /\ physicsTickAcc' = DblAdd(physicsTickAcc, Dbl(delta))
    /\ calls' = <<>>
    /\ pc' = "while"
    /\ UNCHANGED <<it, cur, snapListeners, snapEnts, ticksDone>>
    /\ UNCHANGED <<entVars, obsVars, gameVars>>
    /\ UNCHANGED <<restVars, regVars>>

\* WhileTest with the accumulator emptied instead of reduced by one period.
WhileTestReset ==
    /\ pc = "while"
    /\ IF DblGeq(physicsTickAcc, physicsTickDelta)
       THEN /\ physicsTickAcc' = Dbl(0)
            /\ ticksDone' = ticksDone + 1
            /\ calls' = Append(calls, <<"update", 0>>)
            /\ pc' = "listeners"
            /\ it' = 0
            /\ snapListeners' = Range(tickListeners)
            /\ UNCHANGED snapEnts
       ELSE /\ IF renderContext
               THEN pc' = "render" /\ it' = 0 /\ snapEnts' = entities
               ELSE pc' = "idle" /\ UNCHANGED <<it, snapEnts>>
            /\ UNCHANGED <<physicsTickAcc, calls, snapListeners, ticksDone>>
    /\ UNCHANGED <<time, frames, acc0, frameDelta, cur>>
    /\ UNCHANGED <<entVars, obsVars, gameVars>>
    /\ UNCHANGED <<restVars, regVars>>

\* WhileTest that goes on to the render pass in server mode too.
WhileTestRenderAlways ==
    /\ pc = "while"
    /\ IF DblGeq(physicsTickAcc, physicsTickDelta)
       THEN /\ physicsTickAcc' = DblSub(physicsTickAcc, physicsTickDelta)
            /\ ticksDone' = ticksDone + 1
            /\ calls' = Append(calls, <<"update", 0>>)
            /\ pc' = "listeners"
            /\ it' = 0
            /\ snapListeners' = Range(tickListeners)
            /\ UNCHANGED snapEnts
       ELSE /\ pc' = "render" /\ it' = 0 /\ snapEnts' = entities
            /\ UNCHANGED <<physicsTickAcc, calls, snapListeners, ticksDone>>
    /\ UNCHANGED <<time, frames, acc0, frameDelta, cur>>
    /\ UNCHANGED <<entVars, obsVars, gameVars>>
    /\ UNCHANGED <<restVars, regVars>>

\* client.ts:304-306 and 321: the test of the while loop.
WhileTest ==
    /\ pc = "while"
    /\ IF DblGeq(physicsTickAcc, physicsTickDelta)
       THEN /\ physicsTickAcc' = DblSub(physicsTickAcc, physicsTickDelta)
            /\ ticksDone' = ticksDone + 1
            /\ calls' = Append(calls, <<"update", 0>>)
            /\ pc' = "listeners"
            /\ it' = 0
            /\ snapListeners' = Range(tickListeners)
            /\ UNCHANGED snapEnts
       ELSE /\ IF renderContext
               THEN pc' = "render" /\ it' = 0 /\ snapEnts' = entities
               ELSE pc' = "idle" /\ UNCHANGED <<it, snapEnts>>
            /\ UNCHANGED <<physicsTickAcc, calls, snapListeners, ticksDone>>
    /\ UNCHANGED <<time, frames, acc0, frameDelta, cur>>
    /\ UNCHANGED <<entVars, obsVars, gameVars>>
    /\ UNCHANGED <<restVars, regVars>>

\* client.ts:308-310: the next turn of `for (const tickListener of tickListeners)`.
ListenerNext ==
    /\ pc = "listeners"
    /\ IF it < Len(tickListeners)
       THEN /\ cur' = tickListeners[it + 1]
            /\ it' = it + 1
            /\ calls' = Append(calls, <<"listener", tickListeners[it + 1]>>)
            /\ pc' = "inListener"
            /\ UNCHANGED snapEnts
       ELSE /\ pc' = "entities"
            /\ it' = 0
            /\ snapEnts' = entities
            /\ UNCHANGED <<cur, calls>>
    /\ UNCHANGED <<snapListeners, schedVars, entVars, obsVars, gameVars>>
    /\ UNCHANGED <<restVars, regVars>>

\* client.ts:313-318: the next turn of `for (const entity of entities)`.  An
\* array iterator reads index `it` of the array as it is now.
PhysicsNext ==
    /\ pc = "entities"
    /\ IF it < Len(entities)
       THEN /\ it' = it + 1
            /\ IF entities[it + 1] \in stepless
               THEN UNCHANGED <<cur, calls, pc>>
               ELSE /\ cur' = entities[it + 1]
                    /\ calls' = Append(calls, <<"physics", entities[it + 1]>>)
                    /\ pc' = "inPhysics"
       ELSE /\ pc' = "while"
            /\ UNCHANGED <<it, cur, calls>>
    /\ UNCHANGED <<snapListeners, snapEnts, schedVars, entVars, obsVars, gameVars>>
    /\ UNCHANGED <<restVars, regVars>>

\* client.ts:323-330: the next turn of the render pass.
RenderNext ==
    /\ pc = "render"
    /\ IF it < Len(entities)
       THEN /\ it' = it + 1
            /\ IF entities[it + 1] \in frameless
               THEN UNCHANGED <<cur, calls, pc>>
               ELSE /\ cur' = entities[it + 1]
                    /\ calls' = Append(calls, <<"render", entities[it + 1]>>)
                    /\ pc' = "inRender"
       ELSE /\ pc' = "idle"
            /\ UNCHANGED <<it, cur, calls>>
    /\ UNCHANGED <<snapListeners, snapEnts, schedVars, entVars, obsVars, gameVars>>
    /\ UNCHANGED <<restVars, regVars>>

\* CallbackThrows with the exception caught by the loop, which goes on.
CallbackThrowsCaught ==
    /\ pc \in {"inPhysics", "inRender"}
    /\ calls' = Append(calls, <<"throw", cur>>)
    /\ pc' = IF pc = "inPhysics" THEN "entities" ELSE "render"
    /\ UNCHANGED <<it, cur, snapListeners, snapEnts>>
    /\ UNCHANGED <<schedVars, entVars, obsVars, gameVars>>
    /\ UNCHANGED <<restVars, regVars>>

\* The running onPhysicsStep or onRenderFrame throws (client.ts:317, 329):
\* nothing in onTick catches, the async function ends there and its promise
\* rejects.  calls records <<"throw", entity>>.
CallbackThrows ==
    /\ pc \in {"inPhysics", "inRender"}
    /\ calls' = Append(calls, <<"throw", cur>>)
    /\ pc' = "idle"
    /\ UNCHANGED <<it, cur, snapListeners, snapEnts>>
    /\ UNCHANGED <<schedVars, entVars, obsVars, gameVars>>
    /\ UNCHANGED <<restVars, regVars>>

\* The running callback returns to onTick.
CallbackReturn ==
    /\ InCallback
    /\ pc' = CASE pc = "inListener" -> "listeners"
                [] pc = "inPhysics" -> "entities"
                [] pc = "inRender" -> "render"
    /\ UNCHANGED <<it, cur, calls, snapListeners, snapEnts>>
    /\ UNCHANGED <<schedVars, entVars, obsVars, gameVars>>
    /\ UNCHANGED <<restVars, regVars>>

(***************************************************************************)
(* Synced values (src/src/network/sync.ts).  The model follows one synced  *)
(* value, created with entityID SvUid.  A JSON value is the pair of its     *)
(* typeof and its content: <<"null", 0>>, <<"number", n>>, or               *)
(* <<"object", n>> for an object whose nested property holds n.  Two        *)
(* objects with the same content are different objects that are deep-equal. *)
(* The record lastOp describes the last call on the synced value: its name and  *)
(* argument, the stored value and the destroyed flag before it, whether it  *)
(* threw, whether the stored value was a proxy of onChange before it, the   *)
(* payloads the closure sync went on to hand to the network                 *)
(* (hooked: sync.ts:54-55 were reached), and the calls made on a network    *)
(* handle (sent).                                                           *)
(***************************************************************************)
MaxContent == 1

SvValues == {<<"null", 0>>} \cup ({"number", "object"} \X (0..MaxContent))

\* sync.ts:44: the entityID the synced value was created with.
SvUid == NumUids

\* sync.ts:63, 93, 112: value !== null && typeof value === 'object'
IsObject(v) == v[1] = "object"

\* fast-deep-equal (sync.ts:1, 91): structural equality of JSON values.
equal(a, b) == a = b

NoOp == [name |-> "none", arg |-> <<"null", 0>>, was |-> <<"null", 0>>,
         wasDestroyed |-> FALSE, wasWrapped |-> FALSE, threw |-> FALSE, found |-> FALSE,
         hooked |-> <<>>, sent |-> <<>>]

\* part_006:108-119 with the getters client.ts:371-385: network(type) is
\* game.client?.network or game.server?.network.  TRUE: a handle is returned.
networkOf(type) ==
    IF type = "client" THEN ~isServer /\ dataNetwork
    ELSE isServer /\ dataNetwork

\* sync.ts:54-55: the calls sync(value) makes on the network handles.
SyncSends(value) ==
    (IF networkOf("client") THEN <<<<"updateSyncedValue", value>>>> ELSE <<>>)
    \o (IF networkOf("server") THEN <<<<"broadcastSyncedValue", value>>>> ELSE <<>>)

\* The record of a call that threw / that returned after handing `hooked`
\* to the closure sync.
Threw(name, arg) ==
    [name |-> name, arg |-> arg, was |-> svValue, wasDestroyed |-> svDestroyed,
     wasWrapped |-> svWrapped,
     threw |-> TRUE, found |-> FALSE, hooked |-> <<>>, sent |-> <<>>]

Returned(name, arg, hooked) ==
    [name |-> name, arg |-> arg, was |-> svValue, wasDestroyed |-> svDestroyed,
     wasWrapped |-> svWrapped,
     threw |-> FALSE, found |-> FALSE, hooked |-> hooked,
     sent |-> IF hooked = <<>> THEN <<>> ELSE SyncSends(hooked[1])]

\* game.entities (client.ts:387-389): [...entities, ...spawnables.values()]
GameEntities == Range(entities) \cup {spawnables[u] : u \in {v \in Uids : spawnables[v] # None}}

\* Game.initNetwork (client.ts:391-394): assigns the variable `network` of
\* createGame; clientData and serverData keep what they were built with.
InitNetwork ==
    /\ CanCall
    /\ network' = TRUE
    /\ lastOp' = Returned("initNetwork", <<"null", 0>>, <<>>)
    /\ UNCHANGED <<dataNetwork, svValue, svWrapped, svDestroyed>>
    /\ UNCHANGED <<schedVars, loopVars, entVars, obsVars, gameVars>>
    /\ UNCHANGED <<regVars, physVars, queryVars, platVars>>

\* SetValue without the test of `destroyed`.
SetValueUnchecked(newValue) ==
    /\ CanCall
    /\ LET changed == ~equal(svValue, newValue)
       IN  /\ svValue' = newValue
           /\ svWrapped' = IsObject(newValue)
           /\ lastOp' = Returned("set", newValue, IF changed THEN <<newValue>> ELSE <<>>)
    /\ UNCHANGED <<svDestroyed, netVars>>
    /\ UNCHANGED <<schedVars, loopVars, entVars, obsVars, gameVars>>
    /\ UNCHANGED <<regVars, physVars, queryVars, platVars>>

\* `set value` (sync.ts:86-98).
SetValue(newValue) ==
    /\ CanCall
    /\ IF svDestroyed
       THEN /\ lastOp' = Threw("set", newValue)
            /\ UNCHANGED <<svValue, svWrapped>>
       ELSE LET changed == ~equal(svValue, newValue)
            IN  /\ svValue' = newValue
                /\ svWrapped' = IsObject(newValue)
                /\ lastOp' = Returned("set", newValue, IF changed THEN <<newValue>> ELSE <<>>)
    /\ UNCHANGED <<svDestroyed, netVars>>
    /\ UNCHANGED <<schedVars, loopVars, entVars, obsVars, gameVars>>
    /\ UNCHANGED <<regVars, physVars, queryVars, platVars>>

\* `get value` (sync.ts:78-84).
GetValue ==
    /\ CanCall
    /\ lastOp' = IF svDestroyed THEN Threw("get", svValue) ELSE Returned("get", svValue, <<>>)
    /\ UNCHANGED <<svValue, svWrapped, svDestroyed, netVars>>
    /\ UNCHANGED <<schedVars, loopVars, entVars, obsVars, gameVars>>
    /\ UNCHANGED <<regVars, physVars, queryVars, platVars>>

\* sync() (sync.ts:100-102, 49-56).
SyncValue ==
    /\ CanCall
    /\ lastOp' = IF svDestroyed THEN Threw("sync", svValue)
             ELSE Returned("sync", svValue, <<svValue>>)
    /\ UNCHANGED <<svValue, svWrapped, svDestroyed, netVars>>
    /\ UNCHANGED <<schedVars, loopVars, entVars, obsVars, gameVars>>
    /\ UNCHANGED <<regVars, physVars, queryVars, platVars>>

\* `cell.value.a.b = c`, a nested property of the stored object set to a
\* different content.  `get value` throws on a destroyed cell.  The proxy
\* onChange returned calls onChanged (sync.ts:58-60) with the stored value as
\* `this`; an object stored as it came has nothing that notices the change.
Mutate(c) ==
    /\ CanCall
    /\ IF svDestroyed
       THEN /\ lastOp' = Threw("mutate", <<"object", c>>)
            /\ UNCHANGED svValue
       ELSE /\ IsObject(svValue)
            /\ c # svValue[2]
            /\ svValue' = <<"object", c>>
            /\ lastOp' = Returned("mutate", <<"object", c>>,
                              IF svWrapped THEN <<<<"object", c>>>> ELSE <<>>)
    /\ UNCHANGED <<svWrapped, svDestroyed, netVars>>
    /\ UNCHANGED <<schedVars, loopVars, entVars, obsVars, gameVars>>
    /\ UNCHANGED <<regVars, physVars, queryVars, platVars>>

\* `old.a.b = c` on the object `old` that was the stored value until the
\* last `set value` or inbound setter call replaced it.  Neither call
\* unsubscribes the proxy it replaces (sync.ts:92-95, 105; onChange.unsubscribe
\* is called in destroy only, 113, and on the value stored then), so a proxy
\* still calls onChanged with `old` as `this`, and sync(old) throws on a
\* destroyed synced value (sync.ts:50-52).  The stored value is another
\* object and stays as it is.  lastOp.wasWrapped says whether `old` was a proxy.
MutateReplaced(c) ==
    /\ CanCall
    /\ lastOp.name \in {"set", "update"} /\ ~lastOp.threw
    /\ lastOp.name = "update" => lastOp.found
    /\ IsObject(lastOp.was) /\ c # lastOp.was[2]
    /\ lastOp' =
           IF lastOp.wasWrapped /\ svDestroyed
           THEN [Threw("mutateReplaced", <<"object", c>>) EXCEPT !.wasWrapped = TRUE]
           ELSE [Returned("mutateReplaced", <<"object", c>>,
                          IF lastOp.wasWrapped THEN <<<<"object", c>>>> ELSE <<>>)
                    EXCEPT !.wasWrapped = lastOp.wasWrapped]
    /\ UNCHANGED <<svValue, svWrapped, svDestroyed, netVars>>
    /\ UNCHANGED <<schedVars, loopVars, entVars, obsVars, gameVars>>
    /\ UNCHANGED <<regVars, physVars, queryVars, platVars>>

\* updateSyncedValue(game, entityID, key, val) (sync.ts:168-185) for a packet
\* naming this synced value, and [setter] (sync.ts:104-106).
UpdateSyncedValue(val) ==
    /\ Idle
    /\ LET found == \E e \in GameEntities : kind[e] = "spawnable" /\ uidOf[e] = SvUid
       IN  /\ lastOp' = [Returned("update", val, <<>>) EXCEPT !.found = found]
           /\ svValue' = IF found THEN val ELSE svValue
           /\ svWrapped' = IF found THEN FALSE ELSE svWrapped
    /\ UNCHANGED <<svDestroyed, netVars>>
    /\ UNCHANGED <<schedVars, loopVars, entVars, obsVars, gameVars>>
    /\ UNCHANGED <<regVars, physVars, queryVars, platVars>>

\* game.entities as the array it is (client.ts:387-389): the entity list
\* followed by the values of the spawnable map.  The map's values come in
\* insertion order; they are listed here by UID, the order not being used.
GameEntitiesArray ==
    LET us == {v \in Uids : spawnables[v] # None}
        nth(i) == CHOOSE u \in us : Cardinality({v \in us : v < u}) = i - 1
    IN  entities \o [i \in 1..Cardinality(us) |-> spawnables[nth(i)]]

\* How many elements of an array are e.
Occurrences(seq, e) == Cardinality({i \in 1..Len(seq) : seq[i] = e})

\* syncEntities(game) (sync.ts:152-155) and syncEntity (sync.ts:138-142), as
\* far as the synced value of the model goes: it is a property of the spawned
\* entity with UID SvUid, and value.sync() is called once for every element
\* of game.entities.filter(isSpawnableEntity) that is this entity.  sync()
\* throws on a destroyed synced value (sync.ts:50-52), which ends the call.
\* lastOp.found says whether the entity was in the entity list at the call.
SyncEntities ==
    /\ Idle
    /\ LET owners == {e \in AllEnts : kind[e] = "spawnable" /\ uidOf[e] = SvUid}
           visits == SelectSeq(GameEntitiesArray, LAMBDA e : e \in owners)
           n      == Len(visits)
           live   == owners \cap Range(entities) # {}
       IN  lastOp' =
               IF n > 0 /\ svDestroyed
               THEN [Threw("syncEntities", svValue) EXCEPT !.found = live]
               ELSE [name |-> "syncEntities", arg |-> svValue, was |-> svValue,
                     wasDestroyed |-> svDestroyed, wasWrapped |-> svWrapped,
                     threw |-> FALSE, found |-> live,
                     hooked |-> [i \in 1..n |-> svValue],
                     sent |-> IF n = 0 THEN <<>>
                              ELSE IF n = 1 THEN SyncSends(svValue)
                              ELSE SyncSends(svValue) \o SyncSends(svValue)]
    /\ UNCHANGED <<svValue, svWrapped, svDestroyed, netVars>>
    /\ UNCHANGED <<schedVars, loopVars, entVars, obsVars, gameVars>>
    /\ UNCHANGED <<regVars, physVars, queryVars, platVars>>

\* destroy() (sync.ts:108-115).
DestroyValue ==
    /\ CanCall
    /\ svDestroyed' = TRUE
    /\ svWrapped' = IF svDestroyed THEN svWrapped ELSE FALSE
    /\ lastOp' = Returned("destroy", svValue, <<>>)
    /\ UNCHANGED <<svValue, netVars>>
    /\ UNCHANGED <<schedVars, loopVars, entVars, obsVars, gameVars>>
    /\ UNCHANGED <<regVars, physVars, queryVars, platVars>>

(***************************************************************************)
(* The physics adapter (src/src/physics.ts).  The table `entities` maps an *)
(* entity UID to a set of bodies; a UID without an entry reads as the      *)
(* empty set (`entities.get(uid) ?? new Set()`).  engine.world.bodies is   *)
(* an array: Matter.Composite.add pushes each body onto it and             *)
(* Matter.Composite.remove takes out the first occurrence of each body, so *)
(* world counts how many times each body is in the array.  physOut is the  *)
(* last call: its name, entity, bodies, whether it threw, what getBodies   *)
(* returned, and `owned`, for each UID the bodies registered for it and    *)
(* not unregistered from it since.                                         *)
(***************************************************************************)
\* isSpawnableEntity(entity) (physics.ts:38, 52, 66; client.ts:436)
isSpawnableEntity(e) == kind[e] = "spawnable"

PhysThrew(name, e, bodies) ==
    [name |-> name, ent |-> e, bodies |-> bodies, threw |-> TRUE, result |-> {},
     owned |-> physOut.owned]

PhysDone(name, e, bodies, result, owned) ==
    [name |-> name, ent |-> e, bodies |-> bodies, threw |-> FALSE, result |-> result,
     owned |-> owned]

\* Matter.Composite.add(engine.world, bodies) / Matter.Composite.remove
WorldAdd(bodies) == [b \in Bodies |-> IF b \in bodies THEN world[b] + 1 ELSE world[b]]
WorldRemove(bodies) ==
    [b \in Bodies |-> IF b \in bodies /\ world[b] > 0 THEN world[b] - 1 ELSE world[b]]

\* Physics.register (physics.ts:37-49)
PhysRegister(e, bodies) ==
    /\ CanCall
    /\ kind[e] # "none"
    /\ IF ~isSpawnableEntity(e)
       THEN /\ physOut' = PhysThrew("register", e, bodies)
            /\ UNCHANGED <<physEntities, world>>
       ELSE LET uid == uidOf[e]
            IN  /\ physEntities' = [physEntities EXCEPT ![uid] = @ \cup bodies]
                /\ world' = WorldAdd(bodies)
                /\ physOut' = PhysDone("register", e, bodies, {},
                                       [physOut.owned EXCEPT ![uid] = @ \cup bodies])
    /\ UNCHANGED <<schedVars, loopVars, entVars, obsVars, gameVars>>
    /\ UNCHANGED <<netVars, svVars, regVars, queryVars, platVars>>

\* Physics.unregister (physics.ts:51-63)
PhysUnregister(e, bodies) ==
    /\ CanCall
    /\ kind[e] # "none"
    /\ IF ~isSpawnableEntity(e)
       THEN /\ physOut' = PhysThrew("unregister", e, bodies)
            /\ UNCHANGED <<physEntities, world>>
       ELSE LET uid == uidOf[e]
            IN  /\ physEntities' = [physEntities EXCEPT ![uid] = @ \ bodies]
                /\ world' = WorldRemove(bodies)
                /\ physOut' = PhysDone("unregister", e, bodies, {},
                                       [physOut.owned EXCEPT ![uid] = @ \ bodies])
    /\ UNCHANGED <<schedVars, loopVars, entVars, obsVars, gameVars>>
    /\ UNCHANGED <<netVars, svVars, regVars, queryVars, platVars>>

\* Physics.getBodies (physics.ts:65-72)
GetBodies(e) ==
    /\ CanCall
    /\ kind[e] # "none"
    /\ physOut' = IF ~isSpawnableEntity(e) THEN PhysThrew("getBodies", e, {})
                  ELSE PhysDone("getBodies", e, {}, physEntities[uidOf[e]], physOut.owned)
    /\ UNCHANGED <<physEntities, world>>
    /\ UNCHANGED <<schedVars, loopVars, entVars, obsVars, gameVars>>
    /\ UNCHANGED <<netVars, svVars, regVars, queryVars, platVars>>

(***************************************************************************)
(* Game.queryTags (client.ts:498-527).  tags is the array of strings       *)
(* handed to 'all' and 'any'; fn, the predicate handed to 'fn', is the set *)
(* of tag sets it accepts.  The result is read as a set of entities.       *)
(***************************************************************************)
\* [...spawnables.values()]
SpawnableValues == {spawnables[u] : u \in {v \in Uids : spawnables[v] # None}}

\* entity.tags.includes(tag)
Includes(e, tag) == tag \in tagsOf[e]

\* queryTagsOf with `some` under 'all' and `every` under 'any'.
queryTagsSwapped(query, tags, fn) ==
    IF query = "fn" THEN {e \in SpawnableValues : tagsOf[e] \in fn}
    ELSE {e \in SpawnableValues :
            IF query = "all" THEN \E i \in 1..Len(tags) : Includes(e, tags[i])
            ELSE IF query = "any" THEN \A i \in 1..Len(tags) : Includes(e, tags[i])
            ELSE FALSE}

\* What queryTags(query, fnOrTags) returns.
queryTagsOf(query, tags, fn) ==
    IF query = "fn" THEN {e \in SpawnableValues : tagsOf[e] \in fn}
    ELSE {e \in SpawnableValues :
            IF query = "all" THEN \A i \in 1..Len(tags) : Includes(e, tags[i])
            ELSE IF query = "any" THEN \E i \in 1..Len(tags) : Includes(e, tags[i])
            ELSE FALSE}

\* The live spawnables: the spawned entities of the entity list.
LiveSpawnables == {e \in Range(entities) : isSpawnableEntity(e)}

QueryTags(query, tags, fn) ==
    /\ CanCall
    /\ queryOut' = [query |-> query, tags |-> tags, fn |-> fn,
                    live |-> LiveSpawnables, result |-> queryTagsOf(query, tags, fn)]
    /\ UNCHANGED tagsOf
    /\ UNCHANGED <<schedVars, loopVars, entVars, obsVars, gameVars>>
    /\ UNCHANGED <<netVars, svVars, regVars, physVars, platVars>>

(***************************************************************************)
(* Platform.onPhysicsStep (src/unnamed/part_001:21-95).  An integer-valued *)
(* JavaScript number n with |n| < 2^32 is the pair <<q, r>> with           *)
(* n = q * 2^16 + r and 0 <= r < 2^16: 0b100 is <<0, 4>>, the literal of   *)
(* 32 ones is <<65535, 65535>>, and -5 is <<-1, 65531>>.  The operators &  *)
(* and | convert their operands to signed 32-bit integers and give one.    *)
(* Positions are integers, y growing downwards; the heights are even, so   *)
(* that the halves the code takes are integers too.                        *)
(***************************************************************************)
MaxNetPlayers == 2

\* The 16-bit halves of the two's complement word of n (ToInt32 / ToUint32
\* keep n modulo 2^32).
Halves(n) == <<n[1] % LimbBase, n[2]>>

\* The signed 32-bit integer whose word has the halves h.
Int32(h) == <<IF h[1] >= LimbBase \div 2 THEN h[1] - LimbBase ELSE h[1], h[2]>>

RECURSIVE And16(_, _, _)
And16(a, b, k) ==
    IF k = 0 THEN 0
    ELSE (a % 2) * (b % 2) + 2 * And16(a \div 2, b \div 2, k - 1)

RECURSIVE Or16(_, _, _)
Or16(a, b, k) ==
    IF k = 0 THEN 0
    ELSE (IF a % 2 = 1 \/ b % 2 = 1 THEN 1 ELSE 0) + 2 * Or16(a \div 2, b \div 2, k - 1)

\* x & y and x | y of JavaScript.
BitAnd(x, y) ==
    Int32(<<And16(Halves(x)[1], Halves(y)[1], 16), And16(Halves(x)[2], Halves(y)[2], 16)>>)
BitOr(x, y) ==
    Int32(<<Or16(Halves(x)[1], Halves(y)[1], 16), Or16(Halves(x)[2], Halves(y)[2], 16)>>)

\* part_001:85-94: the literals.
AllBits == <<65535, 65535>>              \* 0b11111111111111111111111111111111
AllButNetPlayers == <<65535, 65531>>     \* 0b11111111111111111111111111111011
AllButPlayers == <<65535, 65529>>        \* 0b11111111111111111111111111111001
NetPlayersBit == <<0, 4>>                \* 0b100
NoBits == <<0, 0>>

\* this.body of the platform (bounds and position) and player.bounds.
PlatformBody == [minX |-> 0 - 50, maxX |-> 50, minY |-> 0 - 10, maxY |-> 10, y |-> 0]
PlayerBounds == [width |-> 10, height |-> 40]

\* part_001:38
platformHeight == PlatformBody.maxY - PlatformBody.minY

\* part_001:48-50 and 66-68: the body at height y is above the platform.
AbovePlatform(y) ==
    y + PlayerBounds.height \div 2 < PlatformBody.y - platformHeight \div 2 + 1

\* part_001:44-46, 52-57: the test made for one net player at <<x, y>>.
NetPlayerOnPlatform(pos) ==
    LET netPlayerWithinXBoundsOfPlatform ==
            /\ pos[1] + PlayerBounds.width > PlatformBody.minX
            /\ pos[1] - PlayerBounds.width < PlatformBody.maxX
        netPlayerYDistance == pos[2] - PlatformBody.y
    IN  AbovePlatform(pos[2]) /\ netPlayerYDistance > 0 - 350
            /\ netPlayerWithinXBoundsOfPlatform

\* part_001:40-61: the loop over the net players, from index i, left by
\* `break` at the first one the test accepts.
RECURSIVE platformShouldCollideWithNetPlayers(_, _)
platformShouldCollideWithNetPlayers(netPlayers, i) ==
    IF i > Len(netPlayers) THEN FALSE
    ELSE IF NetPlayerOnPlatform(netPlayers[i]) THEN TRUE
    ELSE platformShouldCollideWithNetPlayers(netPlayers, i + 1)

\* PlatformMask with the inactive mask never given the net-player bit.
PlatformMaskNoNet(active, collide) ==
    LET activePlatformMask == IF collide THEN AllBits ELSE AllButNetPlayers
    IN  IF active THEN BitAnd(AllBits, activePlatformMask)
        ELSE BitOr(AllButPlayers, NoBits)

\* part_001:84-94: the mask assigned to this.body.collisionFilter.mask.
PlatformMask(active, collide) ==
    LET activePlatformMask == IF collide THEN AllBits ELSE AllButNetPlayers
        inactivePlatformMask == IF collide THEN NetPlayersBit ELSE NoBits
    IN  IF active THEN BitAnd(AllBits, activePlatformMask)
        ELSE BitOr(AllButPlayers, inactivePlatformMask)

\* part_001:70-82: isPlatformActive after the step.
PlatformActive(was, isCrouching, playerAbovePlatform, playerMovingDownward) ==
    IF was
    THEN LET a == IF isCrouching THEN FALSE ELSE was
         IN  IF ~playerAbovePlatform THEN FALSE ELSE a
    ELSE IF ~isCrouching THEN playerAbovePlatform /\ playerMovingDownward
    ELSE was

\* Platform.onPhysicsStep (part_001:21-95).  hasPlayer: $game.entities has
\* a local player; py and vy: playerBody.position.y and playerBody.velocity.y;
\* netPlayers: the positions of the net players of $game.entities, in order.
\* game('client') is undefined on a server (part_006:28-35).
PlatformStep(hasPlayer, isCrouching, py, vy, netPlayers) ==
    /\ platStep' = [called |-> TRUE, hasPlayer |-> hasPlayer, isCrouching |-> isCrouching,
                    py |-> py, vy |-> vy, netPlayers |-> netPlayers,
                    wasActive |-> isPlatformActive, wasMask |-> bodyMask]
    /\ IF isServer \/ ~hasPlayer
       THEN UNCHANGED <<isPlatformActive, bodyMask>>
       ELSE LET collide == platformShouldCollideWithNetPlayers(netPlayers, 1)
                active  == PlatformActive(isPlatformActive, isCrouching,
                                          AbovePlatform(py), vy > 0)
            IN  /\ isPlatformActive' = active
                /\ bodyMask' = PlatformMask(active, collide)
    /\ UNCHANGED <<schedVars, loopVars, entVars, obsVars, gameVars>>
    /\ UNCHANGED <<netVars, svVars, regVars, physVars, queryVars>>

(***************************************************************************)
(* The state createGame returns (client.ts:272-571): in client mode the    *)
(* camera has been instantiated (client.ts:568).                           *)
(***************************************************************************)
Init ==
    /\ isServer \in BOOLEAN
    /\ time = 0
    /\ physicsTickAcc = Dbl(0)
    /\ pc = "idle" /\ it = 0 /\ cur = 0
    /\ frames = 0 /\ acc0 = Dbl(0) /\ frameDelta = 0 /\ ticksDone = 0
    /\ calls = <<>> /\ snapListeners = {} /\ snapEnts = <<>>
    /\ entities = IF isServer THEN <<>> ELSE <<Camera>>
    /\ spawnables = [u \in Uids |-> None]
    /\ tickListeners = <<>>
    /\ running = TRUE
    /\ kind = [e \in AllEnts |-> IF e = Camera /\ ~isServer THEN "plain" ELSE "none"]
    /\ uidOf = [e \in AllEnts |-> None]
    /\ priority \in [AllEnts -> {None} \cup 0..MaxPriority]
    /\ stepless \in SUBSET {Camera}
    /\ frameless \in SUBSET {NumEnts}
    /\ data = [e \in AllEnts |-> IF e = Camera /\ ~isServer THEN InitResult(e) ELSE NotSet]
    /\ renderData = [e \in AllEnts |-> IF e = Camera /\ ~isServer THEN RenderResult(e) ELSE NotSet]
    /\ tasks = {}
    /\ nextId = 0
    /\ shutdownAt = "no" /\ mapLen = 0
    /\ teardowns = [e \in AllEnts |-> 0]
    /\ tdLookup = [e \in AllEnts |-> NotCalled]
    /\ tdrLookup = [e \in AllEnts |-> NotCalled]
    /\ network = FALSE
    /\ dataNetwork = network
    /\ svValue \in SvValues
    /\ svWrapped = IsObject(svValue)
    /\ svDestroyed = FALSE
    /\ lastOp = NoOp
    /\ spawnableFunctions = [n \in Names |-> IF n = DefaultName THEN DefaultFn ELSE None]
    /\ madeBy = [e \in AllEnts |-> <<None, None>>]
    /\ regLog = [first |-> spawnableFunctions, name |-> DefaultName, fn |-> DefaultFn,
                 had |-> FALSE, threw |-> FALSE]
    /\ spawnOut = "none"
    /\ batch = [state |-> "none", defs |-> <<>>, known |-> {}, jobs |-> <<>>,
                result |-> <<>>]
    /\ physEntities = [u \in Uids |-> {}]
    /\ world = [b \in Bodies |-> 0]
    /\ physOut = [name |-> "none", ent |-> Camera, bodies |-> {}, threw |-> FALSE,
                  result |-> {}, owned |-> physEntities]
    /\ tagsOf \in [AllEnts -> SUBSET Tags]
    /\ tagsOf[Camera] = {}
    /\ queryOut = [query |-> "none", tags |-> <<>>, fn |-> {}, live |-> {}, result |-> {}]
    /\ isPlatformActive = FALSE
    /\ bodyMask = AllBits
    /\ platStep = [called |-> FALSE, hasPlayer |-> FALSE, isCrouching |-> FALSE,
                   py |-> 0, vy |-> 0, netPlayers |-> <<>>,
                   wasActive |-> FALSE, wasMask |-> AllBits]

\* Elapsed times (ms) of the frame callbacks.
TickDeltas == {7, 50, 250}
GameDeltas == {17}
LifeDeltas == {17}

OnTick ==
    \/ WhileTest
    \/ ListenerNext
    \/ PhysicsNext
    \/ RenderNext
    \/ CallbackReturn

Continue ==
    \E t \in tasks :
        \/ InitResolved(t)
        \/ RenderResolved(t)
        \/ SpawnResume(t)
        \/ TeardownRenderResolved(t)
        \/ TeardownResolved(t)

\* All entities alike: the same priority, every callback defined.
Uniform ==
    /\ priority = [e \in AllEnts |-> 0]
    /\ stepless = {}
    /\ frameless = {}
    /\ tagsOf = [e \in AllEnts |-> {}]

(***************************************************************************)
(* SpecTick: the scheduler.  Entities are instantiated before the first    *)
(* frame; frame callbacks of any elapsed time in TickDeltas follow.        *)
(***************************************************************************)
InitTick ==
    /\ priority = [e \in AllEnts |-> 0]
    /\ svValue = <<"null", 0>>
    /\ tagsOf = [e \in AllEnts |-> {}]
    /\ Init

NextTick ==
    \/ \E d \in TickDeltas : frames < MaxFrames /\ OnTickBegin(d)
    \/ OnTick
    \/ \E e \in Ents : Idle /\ frames = 0 /\ kind[e] = "none" /\ nextId < MaxTickCalls /\ Instantiate(e)
    \/ \E t \in tasks : InitResolved(t) \/ RenderResolved(t)

SpecTick == InitTick /\ [][NextTick]_vars

(***************************************************************************)
(* What a finished frame callback did, read from calls.                    *)
(***************************************************************************)
CountOf(entry) == Cardinality({i \in 1..Len(calls) : calls[i] = entry})

\* Fixed ticks the frame callback ran: one Matter.Engine.update each.
TicksRun == CountOf(<<"update", 0>>)

\* The frame callback has returned.
FrameDone == pc = "idle" /\ frames > 0

\* floor((x + ms) * rate / 1000) in exact arithmetic: the number of whole
\* periods of 1000/rate ms in an accumulator x that gains ms.
WholePeriods(x, ms, rate) ==
    LET y  == ExactAdd(x, Dbl(ms))
        m3 == y[4] * rate
        m2 == y[3] * rate + (m3 \div LimbBase)
        m1 == y[2] * rate + (m2 \div LimbBase)
        m0 == y[1] * rate + (m1 \div LimbBase)
    IN  m0 \div 1000

\* Every physics-step callback of the frame precedes every render callback.
PhysicsBeforeRender ==
    \A i, j \in 1..Len(calls) :
        calls[i][1] = "physics" /\ calls[j][1] = "render" => i < j

\* Exactly one render pass: one onRenderFrame for each entity that has one.
OneRenderPass ==
    \A e \in AllEnts :
        CountOf(<<"render", e>>) =
            IF e \in Range(snapEnts) /\ e \notin frameless THEN 1 ELSE 0

\* 250 ms into an empty accumulator at 60 Hz: 15 physics steps per entity.
Frame250 ==
    (acc0 = Dbl(0) /\ frameDelta = 250) =>
        /\ TicksRun = 15
        /\ \A e \in Range(snapEnts) \ stepless : CountOf(<<"physics", e>>) = 15

\* C1 as stated: in client mode a frame callback runs exactly
\* floor((accumulator + elapsed) / period) fixed ticks (15 for 250 ms into an
\* empty accumulator), all before its single render pass.
C1_AsStated ==
    (FrameDone /\ ~isServer) =>
        /\ TicksRun = WholePeriods(acc0, frameDelta, PhysicsTickrate)
        /\ Frame250
        /\ PhysicsBeforeRender
        /\ OneRenderPass

\* C1 amended: 250 ms into an empty accumulator runs exactly 15 fixed ticks;
\* in general the callback runs fixed ticks until less than one period is
\* left in the accumulator, their number being floor((accumulator + elapsed)
\* / period) or differing from it by one where the double subtraction rounds
\* across a whole period; all of them run before the single render pass.
C1_Ticks ==
    (FrameDone /\ ~isServer) =>
        /\ TicksRun - WholePeriods(acc0, frameDelta, PhysicsTickrate) \in {-1, 0, 1}
        /\ ~DblGeq(physicsTickAcc, physicsTickDelta)
        /\ Frame250
        /\ PhysicsBeforeRender
        /\ OneRenderPass

\* A frame of 250 ms into an empty accumulator has stepped an entity 15 times
\* and rendered it once.
C1_Witness ==
    /\ FrameDone /\ ~isServer
    /\ acc0 = Dbl(0) /\ frameDelta = 250
    /\ \E e \in Ents : CountOf(<<"physics", e>>) = 15 /\ CountOf(<<"render", e>>) = 1

(***************************************************************************)
(* SpecLife: instantiate, spawn and destroy calls made between tasks, in   *)
(* any interleaving with their continuations and with frame callbacks.     *)
(* Definitions supply UIDs that are unique, as generated ones are.         *)
(***************************************************************************)
InitLife == Uniform /\ svValue = <<"null", 0>> /\ Init

UidUnused(u) == \A e \in AllEnts : uidOf[e] # u

NextLife ==
    \/ \E d \in LifeDeltas : frames < MaxGameFrames /\ OnTickBegin(d)
    \/ OnTick
    \/ \E e \in Ents : Idle /\ nextId < MaxCalls /\ Instantiate(e)
    \/ \E defUid \in Uids \cup {None}, generated \in Uids :
           /\ Idle /\ nextId < MaxCalls
           /\ UidUnused(generated)
           /\ UidUnused(ContextUid(defUid, generated))
           /\ Spawn(ContextUid(defUid, generated))
    \/ \E e \in AllEnts : Idle /\ nextId < MaxCalls /\ Destroy(e)
    \/ Continue

SpecLife == InitLife /\ [][NextLife]_vars

\* C2: every entity in the entity list, and so every entity the tick loop
\* visits, has its simulation data stored and, in client mode, its render
\* data stored, whatever instantiate or spawn calls are pending.
C2_Initialized ==
    /\ \A e \in Range(entities) :
           data[e] # NotSet /\ (~isServer => renderData[e] # NotSet)
    /\ pc \in {"inPhysics", "inRender"} =>
           data[cur] # NotSet /\ (~isServer => renderData[cur] # NotSet)

\* The tick loop is inside a callback of one entity while the init or the
\* initRenderContext of another is pending.
C2_Witness ==
    /\ pc \in {"inPhysics", "inRender"} /\ cur \in Ents
    /\ \E t \in tasks : t.at \in {"init", "initRender"} /\ t.ent # cur /\ data[t.ent] = NotSet

\* C3: inside teardown and teardownRenderContext of a spawned entity,
\* lookup of the entity's UID returns undefined.
C3_LookupInTeardown ==
    \A e \in Ents :
        kind[e] = "spawnable" =>
            /\ tdLookup[e] \in {NotCalled, None}
            /\ tdrLookup[e] \in {NotCalled, None}

\* A spawned entity that lookup returned has had its teardown called.
C3_Witness ==
    \E e \in Ents :
        /\ kind[e] = "spawnable" /\ teardowns[e] = 1 /\ tdLookup[e] = None
        /\ \E t \in tasks : t.op = "destroy" /\ t.ent = e /\ t.at = "teardown"

\* The init of an entity has resolved / its initRenderContext has resolved:
\* an instantiate call for it has passed that await, or the entity has been
\* in the entity list.
WasListed(e) ==
    \/ e \in Range(entities)
    \/ teardowns[e] > 0
    \/ tdrLookup[e] # NotCalled
InitHasResolved(e) == WasListed(e) \/ \E t \in tasks : t.ent = e /\ t.at # "init"
RenderHasResolved(e) ==
    WasListed(e) \/ \E t \in tasks : t.ent = e /\ t.at \notin {"init", "initRender"}

\* C14: in client mode getData throws "not initialized" for an entity until
\* its init has resolved and returns exactly init's result from then on, and
\* getRenderData does the same with initRenderContext.
C14_DataAccess ==
    ~isServer =>
        \A e \in AllEnts :
            /\ getData(e) = IF InitHasResolved(e) THEN InitResult(e) ELSE NotInitialized
            /\ getRenderData(e) =
                   IF RenderHasResolved(e) THEN RenderResult(e) ELSE NotInitialized

\* In client mode an entity is between its init and its initRenderContext,
\* and another has been through both.
C14_Witness ==
    /\ ~isServer
    /\ \E e, f \in Ents :
           /\ InitHasResolved(e) /\ ~RenderHasResolved(e)
           /\ getData(e) = InitResult(e) /\ getRenderData(e) = NotInitialized
           /\ getRenderData(f) = RenderResult(f)

(***************************************************************************)
(* SpecPass: entities are instantiated and tick listeners are registered;  *)
(* when every call has settled, frame callbacks run whose callbacks        *)
(* destroy entities and remove tick listeners.                             *)
(***************************************************************************)
InitPass == Uniform /\ svValue = <<"null", 0>> /\ Init

\* Facade calls made so far by the callbacks of the running frame.
CallsMade ==
    Cardinality({i \in 1..Len(calls) : calls[i][1] \in {"destroy", "add", "remove"}})

NextPass ==
    \/ \E d \in GameDeltas : frames < MaxGameFrames /\ tasks = {} /\ OnTickBegin(d)
    \/ OnTick
    \/ \E e \in Ents :
           Idle /\ frames = 0 /\ tasks = {} /\ kind[e] = "none" /\ Instantiate(e)
    \/ \E l \in Listeners : Idle /\ frames = 0 /\ tasks = {} /\ AddTickListener(l)
    \/ \E e \in AllEnts :
           InCallback /\ CallsMade < MaxPassCalls /\ e \in Range(entities) /\ Destroy(e)
    \/ \E l \in Listeners :
           InCallback /\ CallsMade < MaxPassCalls /\ l \in Range(tickListeners)
              /\ RemoveTickListener(l)
    \/ Continue

SpecPass == InitPass /\ [][NextPass]_vars

\* The part of calls that belongs to the fixed tick running or last run.
LastUpdate ==
    IF TicksRun = 0 THEN 0
    ELSE CHOOSE i \in 1..Len(calls) :
             calls[i] = <<"update", 0>> /\ \A j \in (i+1)..Len(calls) : calls[j] # <<"update", 0>>

InTick(entry) == {i \in (LastUpdate + 1)..Len(calls) : calls[i] = entry}

\* A fixed tick's entity pass has just ended / its listener pass has just ended.
EntityPassDone == pc = "while" /\ TicksRun > 0
ListenerPassDone == pc = "entities" /\ it = 0

\* C4 as stated: every entity that was in the entity list when a pass began
\* receives exactly one callback in that pass, also when a callback of the
\* pass destroys an entity.
C4_AsStated ==
    /\ EntityPassDone =>
           \A e \in Range(snapEnts) \ stepless : Cardinality(InTick(<<"physics", e>>)) = 1
    /\ (FrameDone /\ ~isServer) =>
           \A e \in Range(snapEnts) \ frameless : CountOf(<<"render", e>>) = 1

\* C5 as stated: every tick listener that was registered when a listener pass
\* began is invoked exactly once in that pass, also when a listener of the
\* pass removes a listener.
C5_AsStated ==
    ListenerPassDone =>
        \A l \in snapListeners : Cardinality(InTick(<<"listener", l>>)) = 1

\* C5 amended: a listener removed during a pass before its turn is not
\* invoked in that pass; every other listener that was registered when the
\* pass began is invoked exactly once, and no listener more than once.
C5_Listeners ==
    ListenerPassDone =>
        \A l \in Listeners :
            LET called  == InTick(<<"listener", l>>)
                removed == InTick(<<"remove", l>>)
            IN  /\ Cardinality(called) <= 1
                /\ l \notin snapListeners => called = {}
                /\ l \in snapListeners =>
                       (called = {} <=> \E r \in removed : TRUE)
                          \/ (called # {} /\ \A r \in removed : \A c \in called : c < r)

\* A listener pass has ended in which one listener removed another that had
\* not had its turn, and a third party was still invoked.
C5_Witness ==
    /\ ListenerPassDone
    /\ \E l, m \in snapListeners :
           /\ l # m
           /\ InTick(<<"listener", l>>) # {}
           /\ InTick(<<"remove", m>>) # {}
           /\ InTick(<<"listener", m>>) = {}

(***************************************************************************)
(* SpecShutdown: entities are instantiated and spawned; once every call    *)
(* has settled, shutdown() is called and runs to its end.                  *)
(***************************************************************************)
NextShutdown ==
    \/ \E e \in Ents : Idle /\ shutdownAt = "no" /\ kind[e] = "none" /\ Instantiate(e)
    \/ \E u \in Uids : Idle /\ shutdownAt = "no" /\ UidUnused(u) /\ Spawn(u)
    \/ tasks = {} /\ Shutdown
    \/ ShutdownMapStep
    \/ ShutdownMapEnd
    \/ ShutdownResume
    \/ Continue

InitShutdown ==
    /\ svValue = <<"null", 0>>
    /\ tagsOf = [e \in AllEnts |-> {}]
    /\ priority \in [AllEnts -> 0..MaxPriority]
    /\ Init

SpecShutdown == InitShutdown /\ [][NextShutdown]_vars

\* C6 as stated: once shutdown() has resolved, teardown has run exactly once
\* for each entity the game held, the entity list is empty and lookup
\* returns undefined for every UID.
C6_AsStated ==
    shutdownAt = "done" =>
        /\ entities = <<>>
        /\ \A e \in Range(snapEnts) : teardowns[e] = 1
        /\ \A u \in Uids : lookup(u) = None

(***************************************************************************)
(* The synced value in a game: the network handle, the calls on the synced *)
(* value, inbound packets, and the entity the packets are addressed to.    *)
(***************************************************************************)
NextSync ==
    \/ InitNetwork
    \/ \E v \in SvValues : SetValue(v)
    \/ GetValue
    \/ SyncValue
    \/ \E c \in 0..MaxContent : Mutate(c)
    \/ \E v \in SvValues : UpdateSyncedValue(v)
    \/ DestroyValue
    \/ UidUnused(SvUid) /\ Spawn(SvUid)
    \/ Continue
    \/ \E e \in Ents : Destroy(e)

InitSync == Uniform /\ Init

SpecSync == InitSync /\ [][NextSync]_vars

\* The last call was made on a Live synced value after initNetwork.
LiveInstalled(name) ==
    lastOp.name = name /\ ~lastOp.wasDestroyed /\ network

\* C7 as stated: on a Live synced value of a game whose network handle has
\* been installed, `set value` of a deep-equal value sends nothing, and `set
\* value` of a structurally different value makes exactly one send,
\* broadcastSyncedValue on a server and updateSyncedValue on a client,
\* carrying the new value.
C7_AsStated ==
    LiveInstalled("set") =>
        IF lastOp.was = lastOp.arg
        THEN lastOp.sent = <<>>
        ELSE lastOp.sent = <<<<IF isServer THEN "broadcastSyncedValue"
                                ELSE "updateSyncedValue", lastOp.arg>>>>

\* C8 as stated: each in-place mutation of a nested property of the object
\* a Live synced value holds invokes the outbound sync hook exactly once, with
\* the full current value, the one `get value` returns, as payload.
C8_AsStated ==
    (lastOp.name = "mutate" /\ ~lastOp.wasDestroyed) =>
        /\ lastOp.hooked = <<svValue>>
        /\ network => Len(lastOp.sent) = 1 /\ lastOp.sent[1][2] = svValue

\* C9: a destroyed synced value stays destroyed; on it `get value`, `set
\* value` and sync() throw, a failed `set value` leaves the stored value as
\* it was and neither reaches the network calls nor sends, and destroy()
\* returns without throwing and changes nothing.
C9_Destroyed ==
    lastOp.wasDestroyed =>
        /\ svDestroyed
        /\ lastOp.name \in {"get", "set", "sync"} =>
               /\ lastOp.threw
               /\ lastOp.hooked = <<>> /\ lastOp.sent = <<>>
               /\ svValue = lastOp.was
        /\ lastOp.name = "destroy" => ~lastOp.threw /\ svValue = lastOp.was

\* A `set value` of a different value on a destroyed synced value, in a game
\* whose network handle has been installed.
C9_Witness ==
    /\ lastOp.name = "set" /\ lastOp.wasDestroyed /\ network
    /\ lastOp.arg # lastOp.was

\* C10 as stated: an inbound update applied through the setter replaces the
\* value and sends nothing, and a change of the value on a server whose
\* network handle has been installed is broadcast exactly once.
C10_AsStated ==
    /\ (lastOp.name = "update" /\ lastOp.found) =>
           svValue = lastOp.arg /\ lastOp.hooked = <<>> /\ lastOp.sent = <<>>
    /\ (isServer /\ LiveInstalled("set") /\ lastOp.was # lastOp.arg) =>
           /\ Len(lastOp.sent) = 1
           /\ lastOp.sent[1][1] = "broadcastSyncedValue"

(***************************************************************************)
(* SpecBatch: definitions are spawned one by one, and then one spawnMany   *)
(* call is made and runs to its end.  The default type has a constructor,  *)
(* the other types have none.                                              *)
(***************************************************************************)
\* The k-th UID not in use.
NthUid(k) ==
    CHOOSE u \in Uids :
        UidUnused(u) /\ Cardinality({v \in Uids : UidUnused(v) /\ v < u}) = k - 1

\* Batches of definitions: each is invalid or valid with a type name, and
\* the valid ones carry UIDs that differ and are not in use.
BatchDefs ==
    LET shapes == UNION {[1..k -> {0} \cup Names] : k \in 1..MaxBatch}
        valid(sh, i) == Cardinality({j \in 1..i : sh[j] # 0})
    IN  {[i \in 1..Len(sh) |->
             IF sh[i] = 0 THEN <<"invalid", 0, 0>>
             ELSE <<"valid", sh[i], NthUid(valid(sh, i))>>] :
         sh \in {x \in shapes :
                    valid(x, Len(x)) <= Cardinality({u \in Uids : UidUnused(u)})}}

InitBatch == Uniform /\ svValue = <<"null", 0>> /\ Init

NextBatch ==
    \/ \E n \in Names, u \in Uids :
           batch.state = "none" /\ tasks = {} /\ UidUnused(u) /\ SpawnOf(n, u)
    \/ batch.state = "none" /\ SpawnInvalid
    \/ \E defs \in BatchDefs : batch.state = "none" /\ tasks = {} /\ SpawnMany(defs)
    \/ BatchSettle
    \/ Continue

SpecBatch == InitBatch /\ [][NextBatch]_vars

\* The entity constructed for a definition: the one that carries its UID.
MadeFor(def) == {e \in Ents : kind[e] = "spawnable" /\ uidOf[e] = def[3]}

\* The definitions of a batch whose type had a constructor.
KnownDefs == {i \in 1..Len(batch.defs) : batch.defs[i][2] \in batch.known}

\* C11: a spawn of a valid definition whose type has no registered
\* constructor returns undefined and constructs nothing, starts no init and
\* leaves the entity list and the spawnable map as they were; a spawnMany
\* over valid definitions resolves to the entities of the definitions whose
\* type is registered, in their order, and to nothing for the others.
C11_UnknownType ==
    /\ [][\A n \in Names, u \in Uids :
            (spawnableFunctions[n] = None /\ SpawnOf(n, u)) =>
                /\ spawnOut' = "undefined"
                /\ UNCHANGED <<entities, spawnables, kind, uidOf, madeBy, tasks, data>>]_vars
    /\ [](batch.state = "resolved" =>
            /\ Len(batch.result) = Cardinality(KnownDefs)
            /\ \A i \in KnownDefs :
                   LET k == Cardinality({j \in KnownDefs : j <= i})
                   IN  /\ MadeFor(batch.defs[i]) = {batch.result[k]}
                       /\ lookup(batch.defs[i][3]) = batch.result[k]
            /\ \A i \in 1..Len(batch.defs) \ KnownDefs : MadeFor(batch.defs[i]) = {})

\* A spawnMany call has resolved to one entity or more, of a batch that held
\* a definition of a type without constructor.
C11_Witness ==
    /\ batch.state = "resolved"
    /\ batch.result # <<>>
    /\ \E i \in 1..Len(batch.defs) : batch.defs[i][2] \notin batch.known

\* C12 as stated: a spawnMany over N definitions of which exactly one fails
\* schema validation yields the N-1 entities of the others, each returned by
\* lookup under its UID.
C12_AsStated ==
    LET bad == {i \in 1..Len(batch.defs) : batch.defs[i][1] = "invalid"}
    IN  (/\ batch.state \in {"resolved", "rejected"}
         /\ tasks = {}
         /\ Cardinality(bad) = 1
         /\ \A i \in 1..Len(batch.defs) \ bad : batch.defs[i][2] \in batch.known) =>
            /\ batch.state = "resolved"
            /\ Len(batch.result) = Len(batch.defs) - 1
            /\ \A k \in 1..Len(batch.result) :
                   \E i \in 1..Len(batch.defs) \ bad :
                       lookup(batch.defs[i][3]) = batch.result[k]

(***************************************************************************)
(* SpecRegister: constructors are registered and definitions are spawned,  *)
(* one after the other.                                                    *)
(***************************************************************************)
NextRegister ==
    \/ \E n \in Names, f \in Fns : Register(n, f)
    \/ \E n \in Names, u \in Uids : tasks = {} /\ UidUnused(u) /\ SpawnOf(n, u)
    \/ Continue

SpecRegister == InitBatch /\ [][NextRegister]_vars

\* C13: a register call throws exactly when the name had a constructor, and
\* then changes nothing: every name stays bound to the constructor that was
\* registered for it first, and every spawned entity was made by the
\* constructor registered first for its type.
C13_Register ==
    /\ regLog.threw = regLog.had
    /\ \A n \in Names : spawnableFunctions[n] = regLog.first[n]
    /\ \A e \in Ents :
           kind[e] = "spawnable" => madeBy[e][2] = regLog.first[madeBy[e][1]]

\* A register call with another constructor for a bound name has failed, and
\* an entity of that type is being spawned.
C13_Witness ==
    /\ regLog.threw
    /\ regLog.fn # spawnableFunctions[regLog.name]
    /\ \E e \in Ents : kind[e] = "spawnable" /\ madeBy[e][1] = regLog.name /\ data[e] = NotSet

(***************************************************************************)
(* SpecPhysics: entities are spawned one after the other with fresh UIDs;  *)
(* when no more can be spawned, the entities (and, in client mode, the     *)
(* camera, which is not spawnable) register, unregister and read bodies.   *)
(***************************************************************************)
\* The body lists handed to one call: each single body, and all of them.
CallBodies == {{b} : b \in Bodies} \cup {Bodies}

AllSpawned ==
    /\ tasks = {}
    /\ (\A e \in Ents : kind[e] # "none") \/ (\A u \in Uids : ~UidUnused(u))

NextPhysics ==
    \/ \E u \in Uids : tasks = {} /\ UidUnused(u) /\ u = NthUid(1) /\ Spawn(u)
    \/ Continue
    \/ \E e \in AllEnts, bodies \in CallBodies :
           /\ AllSpawned
           /\ \A b \in bodies : world[b] < MaxWorld
           /\ PhysRegister(e, bodies)
    \/ \E e \in AllEnts, bodies \in CallBodies : AllSpawned /\ PhysUnregister(e, bodies)
    \/ \E e \in AllEnts : AllSpawned /\ GetBodies(e)

SpecPhysics == InitBatch /\ [][NextPhysics]_vars

\* C15 as stated: a body is in the set of at most one entity UID.
C15_AsStated ==
    \A b \in Bodies : Cardinality({u \in Uids : b \in physEntities[u]}) <= 1

\* C16 as stated: a call throws exactly for an entity that is not spawnable;
\* after register each body is in the set of the entity and in the world,
\* after unregister each body is neither in the set of the entity nor in the
\* world, and getBodies returns the bodies registered for the entity and not
\* unregistered from it since.
C16_AsStated ==
    physOut.name # "none" =>
        /\ physOut.threw = ~isSpawnableEntity(physOut.ent)
        /\ ~physOut.threw =>
               LET uid == uidOf[physOut.ent]
               IN  /\ physOut.name = "register" =>
                          /\ physOut.bodies \subseteq physEntities[uid]
                          /\ \A b \in physOut.bodies : world[b] > 0
                   /\ physOut.name = "unregister" =>
                          /\ physOut.bodies \cap physEntities[uid] = {}
                          /\ \A b \in physOut.bodies : world[b] = 0
                   /\ physOut.name = "getBodies" => physOut.result = physOut.owned[uid]

(***************************************************************************)
(* SpecQuery: on a server, entities with any tags are spawned under fresh  *)
(* UIDs and destroyed, and queryTags is called in between.                 *)
(***************************************************************************)
\* The tag lists handed to 'all' and 'any': up to MaxTagList tags, in
\* ascending order, a tag possibly repeated.
TagLists ==
    {l \in UNION {[1..n -> Tags] : n \in 0..MaxTagList} :
        \A i \in 1..Len(l) - 1 : l[i] <= l[i + 1]}

\* The predicates handed to 'fn': no tags at all, exactly these tags, any tags.
Predicates == {{S} : S \in SUBSET Tags} \cup {{}, SUBSET Tags}

\* The tags an entity is built with: none, the first one, or all of them.
TagSets == {{}, {t \in Tags : \A s \in Tags : t <= s}, Tags}

InitQuery ==
    /\ isServer = TRUE
    /\ tagsOf \in [AllEnts -> TagSets]
    /\ priority = [e \in AllEnts |-> 0]
    /\ stepless = {}
    /\ frameless = {}
    /\ svValue = <<"null", 0>>
    /\ Init

\* The first query comes at any point, also while a spawn or a destroy is
\* waiting; the later ones come between settled calls.
MayQuery == queryOut.query = "none" \/ tasks = {}

NextQuery ==
    \/ \E u \in Uids : tasks = {} /\ UidUnused(u) /\ u = NthUid(1) /\ Spawn(u)
    \/ \E e \in Ents : tasks = {} /\ e \in Range(entities) /\ Destroy(e)
    \/ Continue
    \/ \E query \in {"all", "any"}, tags \in TagLists :
           MayQuery /\ QueryTags(query, tags, {})
    \/ \E fn \in Predicates : MayQuery /\ QueryTags("fn", <<>>, fn)

SpecQuery == InitQuery /\ [][NextQuery]_vars

\* The spawnables of a set whose tags satisfy the query.
Matching(live, query, tags, fn) ==
    {e \in live :
        \/ query = "all" /\ Range(tags) \subseteq tagsOf[e]
        \/ query = "any" /\ Range(tags) \cap tagsOf[e] # {}
        \/ query = "fn" /\ tagsOf[e] \in fn}

\* C17: queryTags('all', T) returns exactly the live spawnables whose tag
\* set is a superset of T, queryTags('any', T) exactly those carrying at
\* least one tag of T (all of them and none of them for an empty T), and
\* queryTags('fn', p) exactly those whose tags satisfy p.
C17_QueryTags ==
    queryOut.query # "none" =>
        /\ queryOut.result =
               Matching(queryOut.live, queryOut.query, queryOut.tags, queryOut.fn)
        /\ (queryOut.query = "all" /\ queryOut.tags = <<>>) => queryOut.result = queryOut.live
        /\ (queryOut.query = "any" /\ queryOut.tags = <<>>) => queryOut.result = {}

\* Two live spawnables of which a query over two tags returned exactly one.
C17_Witness ==
    /\ Cardinality(queryOut.live) >= 2
    /\ Len(queryOut.tags) >= 2
    /\ queryOut.tags[1] # queryOut.tags[2]
    /\ Cardinality(queryOut.result) = 1
    /\ queryOut.query \in {"all", "any"}

(***************************************************************************)
(* SpecOrder: entities of any priority, or of none, are instantiated and   *)
(* destroyed; once the calls have settled, frame callbacks run.            *)
(***************************************************************************)
InitOrder ==
    /\ stepless = {}
    /\ frameless = {}
    /\ svValue = <<"null", 0>>
    /\ tagsOf = [e \in AllEnts |-> {}]
    /\ Init

NextOrder ==
    \/ \E d \in GameDeltas : frames < MaxGameFrames /\ tasks = {} /\ OnTickBegin(d)
    \/ OnTick
    \/ \E e \in Ents : Idle /\ frames = 0 /\ kind[e] = "none" /\ Instantiate(e)
    \/ \E e \in Ents : Idle /\ frames = 0 /\ tasks = {} /\ e \in Range(entities) /\ Destroy(e)
    \/ Continue

SpecOrder == InitOrder /\ [][NextOrder]_vars

\* The priority an entity counts with: 0 when it has none.
Counted(e) == IF priority[e] = None THEN 0 ELSE priority[e]

Ascending(list) ==
    \A i, j \in 1..Len(list) : i < j => Counted(list[i]) <= Counted(list[j])

IsPhysicsCall(c) == c[1] = "physics"
IsRenderCall(c) == c[1] = "render"

\* The entities called back, in call order, by the fixed tick last run and
\* by the render pass of the frame.
CalledBack(Test(_)) ==
    LET s == SelectSeq(SubSeq(calls, LastUpdate + 1, Len(calls)), Test)
    IN  [i \in 1..Len(s) |-> s[i][2]]

\* C18: the entity list is in ascending order of priority, an entity without
\* priority counting as 0; the physics callbacks of a fixed tick and the
\* render callbacks of a frame are invoked in the order of the list.
C18_PriorityOrder ==
    /\ Ascending(entities)
    /\ EntityPassDone => CalledBack(IsPhysicsCall) = entities
    /\ (FrameDone /\ renderContext) => CalledBack(IsRenderCall) = entities

\* A render pass over three entities, one without priority between one of
\* priority 0 instantiated before it and one of higher priority.
C18_Witness ==
    /\ FrameDone /\ renderContext
    /\ Len(entities) >= 3
    /\ \E i \in 1..Len(entities) - 2 :
           /\ priority[entities[i]] = 0
           /\ priority[entities[i + 1]] = None
           /\ priority[entities[i + 2]] > 0
    /\ \E i \in 1..Len(entities) - 1 : entities[i] > entities[i + 1]
    /\ CalledBack(IsRenderCall) = entities

(***************************************************************************)
(* The order of the steps of a fixed tick, read from calls (SpecPass).     *)
(***************************************************************************)
IsUpdate(i) == calls[i] = <<"update", 0>>

\* No tick listener and no physics callback runs before the physics step of
\* its tick, and no tick listener of a tick runs after a physics callback of
\* that tick.
StepsInOrder ==
    \A i \in 1..Len(calls) :
        /\ calls[i][1] \in {"listener", "physics"} => \E k \in 1..(i - 1) : IsUpdate(k)
        /\ calls[i][1] = "physics" =>
               \A j \in (i + 1)..Len(calls) :
                   calls[j][1] = "listener" => \E k \in (i + 1)..(j - 1) : IsUpdate(k)

\* While the entity pass of a tick runs, every registered tick listener has
\* been invoked in that tick.
ListenersFirst ==
    pc \in {"entities", "inPhysics"} =>
        \A l \in Range(tickListeners) : InTick(<<"listener", l>>) # {}

\* C19 as stated: in each fixed tick the physics world is stepped, then every
\* registered tick listener is invoked, then onPhysicsStep of every live
\* entity is invoked.
C19_AsStated ==
    /\ StepsInOrder
    /\ ListenersFirst
    /\ EntityPassDone =>
           \A e \in Range(entities) \ stepless : InTick(<<"physics", e>>) # {}

(***************************************************************************)
(* The accumulator after a frame callback (SpecTick).                      *)
(***************************************************************************)
\* x after n fixed ticks: n times `physicsTickAcc -= physicsTickDelta`.
RECURSIVE SubPeriods(_, _)
SubPeriods(x, n) == IF n = 0 THEN x ELSE SubPeriods(DblSub(x, physicsTickDelta), n - 1)

\* C20: after a frame callback the accumulator is in [0, period); it is the
\* accumulator of before plus the elapsed time, less one period for each
\* fixed tick run, each tick stepping the physics world once; a frame with
\* accumulator + elapsed < period runs no fixed tick and leaves accumulator
\* + elapsed in the accumulator.
C20_Accumulator ==
    FrameDone =>
        LET sum == ExactAdd(acc0, Dbl(frameDelta))
        IN  /\ DblGeq(physicsTickAcc, Dbl(0))
            /\ ~DblGeq(physicsTickAcc, physicsTickDelta)
            /\ physicsTickAcc = SubPeriods(DblAdd(acc0, Dbl(frameDelta)), TicksRun)
            /\ ~DblGeq(sum, physicsTickDelta) => TicksRun = 0 /\ physicsTickAcc = sum

\* A second frame too short for a fixed tick, after a frame that left a
\* remainder: the remainder and the elapsed time are in the accumulator.
C20_Witness ==
    /\ FrameDone
    /\ frames = 2
    /\ acc0 # Dbl(0)
    /\ frameDelta > 0
    /\ TicksRun = 0
    /\ physicsTickAcc = ExactAdd(acc0, Dbl(frameDelta))

(***************************************************************************)
(* The time argument of the render pass (SpecTick).                        *)
(***************************************************************************)
\* client.ts:322: `{ delta: delta / 1_000, time: time / 1_000 }`, each field
\* as the pair <<milliseconds, 1000>> of the quotient it holds.
RenderTimeState == [delta |-> <<frameDelta, 1000>>, time |-> <<time, 1000>>]

\* `{ smooth }` destructured from the argument (player.ts:1120): the field,
\* or undefined when the object has none.
SmoothOf(timeState) ==
    IF "smooth" \in DOMAIN timeState THEN timeState["smooth"] ELSE <<"undefined">>

\* C21 as stated: the time argument of every onRenderFrame call carries,
\* besides delta and time, a smooth factor.
C21_AsStated ==
    pc = "inRender" =>
        /\ {"delta", "time"} \subseteq DOMAIN RenderTimeState
        /\ SmoothOf(RenderTimeState) # <<"undefined">>

(***************************************************************************)
(* What a successful spawn resolves to (SpecLife).                         *)
(***************************************************************************)
\* C22: when spawn of a valid definition of a registered type resolves, its
\* entity has been through init (and initRenderContext in client mode), is
\* in the entity list and is what lookup returns for its UID; the UID is the
\* one of the definition, or a generated one no entity has when the
\* definition has none.
C22_Spawn ==
    /\ [][\A t \in tasks :
              SpawnResume(t) =>
                  /\ t.ent \in Range(entities')
                  /\ spawnables'[uidOf'[t.ent]] = t.ent
                  /\ data'[t.ent] = InitResult(t.ent)
                  /\ renderContext => renderData'[t.ent] = RenderResult(t.ent)]_vars
    /\ [][\A defUid \in Uids \cup {None}, generated \in Uids :
              (UidUnused(generated) /\ Spawn(ContextUid(defUid, generated))) =>
                  /\ defUid # None => uidOf'[FreshEnt] = defUid
                  /\ defUid = None => uidOf'[FreshEnt] = generated]_vars

\* A spawn has resolved: its entity is listed and looked up by its UID,
\* while another spawn is still waiting.
C22_Witness ==
    \E e \in Ents :
        /\ kind[e] = "spawnable"
        /\ e \in Range(entities)
        /\ lookup(uidOf[e]) = e
        /\ ~\E t \in tasks : t.ent = e
        /\ \E t \in tasks : t.op = "spawn" /\ t.ent # e

(***************************************************************************)
(* SpecStop: entities are instantiated and spawned, a tick listener is     *)
(* registered and bodies are registered; frame callbacks run; shutdown()   *)
(* is called at any point, also while instantiate or spawn calls are       *)
(* waiting for init or initRenderContext.                                  *)
(***************************************************************************)
BeforeShutdown == Idle /\ shutdownAt = "no"

NextStop ==
    \/ \E e \in Ents :
           BeforeShutdown /\ nextId < MaxCalls /\ kind[e] = "none" /\ Instantiate(e)
    \/ \E u \in Uids :
           BeforeShutdown /\ nextId < MaxCalls /\ UidUnused(u) /\ u = NthUid(1) /\ Spawn(u)
    \/ \E l \in Listeners :
           /\ BeforeShutdown /\ tasks = {} /\ frames = 0
           /\ tickListeners = <<>>
           /\ AddTickListener(l)
    \/ \E e \in Ents, bodies \in CallBodies :
           /\ BeforeShutdown /\ tasks = {} /\ frames = 0
           /\ physOut.name = "none"
           /\ e \in Range(entities)
           /\ PhysRegister(e, bodies)
    \/ \E d \in GameDeltas : frames < MaxGameFrames /\ tasks = {} /\ OnTickBegin(d)
    \/ OnTick
    \/ Shutdown
    \/ ShutdownMapStep
    \/ ShutdownMapEnd
    \/ ShutdownResume
    \/ Continue

SpecStop == InitBatch /\ [][NextStop]_vars

\* shutdown() has resolved.
ShutdownResolved == shutdownAt = "done"

\* C23: once shutdown() has resolved no frame callback starts and no tick
\* listener, onPhysicsStep or onRenderFrame is invoked; the physics world is
\* cleared, and the loops are stopped, only when the teardown of every
\* entity shutdown destroyed has resolved.
C23_Stopped ==
    /\ [][ShutdownResolved => (frames' = frames /\ calls' = calls /\ pc' = "idle")]_vars
    /\ [][(shutdownAt # "no" /\ (world' # world \/ running' # running)) =>
              ~\E t \in tasks : t.op = "destroy" /\ t.by = "shutdown"]_vars
    /\ [](ShutdownResolved =>
              /\ ~running
              /\ \A b \in Bodies : world[b] = 0
              /\ \A e \in Range(snapEnts) \ Range(entities) :
                     teardowns[e] > 0 /\ ~\E t \in tasks : t.op = "destroy" /\ t.ent = e)

\* shutdown() has resolved on a game that held a listed entity with a body
\* in the world and a tick listener, before any frame callback ran: the
\* entity was torn down and the world is empty.
C23_Witness ==
    /\ ShutdownResolved
    /\ frames = 0
    /\ tickListeners # <<>>
    /\ \E e \in Ents :
           kind[e] = "spawnable" /\ physEntities[uidOf[e]] # {} /\ teardowns[e] = 1
    /\ \A b \in Bodies : world[b] = 0

(***************************************************************************)
(* The network handle the game hands out (SpecSync).                       *)
(***************************************************************************)
\* C24 as stated: game.server.network and game.client.network are undefined
\* until initNetwork is called; from then on the one of the game's own mode
\* is the injected handle, and a change of a synced value is sent through it.
C24_AsStated ==
    /\ ~network => ~networkOf("client") /\ ~networkOf("server")
    /\ network =>
           /\ networkOf(IF isServer THEN "server" ELSE "client")
           /\ ~networkOf(IF isServer THEN "client" ELSE "server")
           /\ (lastOp.name = "set" /\ ~lastOp.wasDestroyed /\ lastOp.was # lastOp.arg) =>
                  Len(lastOp.sent) = 1

(***************************************************************************)
(* SpecDestroy: every entity is instantiated or spawned at most once;      *)
(* destroy is called between tasks and from callbacks, on entities in the  *)
(* list, on entities whose instantiate is pending and on entities          *)
(* destroyed already; frame callbacks run in between.                      *)
(***************************************************************************)
NextDestroy ==
    \/ \E e \in Ents :
           Idle /\ frames = 0 /\ nextId < MaxCalls /\ kind[e] = "none" /\ Instantiate(e)
    \/ \E u \in Uids :
           /\ Idle /\ frames = 0 /\ nextId < MaxCalls
           /\ UidUnused(u) /\ u = NthUid(1)
           /\ Spawn(u)
    \/ \E e \in AllEnts : Idle /\ nextId < MaxCalls /\ Destroy(e)
    \/ \E e \in AllEnts :
           InCallback /\ nextId < MaxCalls /\ CallsMade < MaxPassCalls /\ Destroy(e)
    \/ \E d \in GameDeltas : frames < MaxGameFrames /\ OnTickBegin(d)
    \/ OnTick
    \/ Continue

SpecDestroy == InitBatch /\ [][NextDestroy]_vars

\* The teardown sequence of e has started: teardownRenderContext or
\* teardown has been called.
TeardownStarted(e) == tdrLookup[e] # NotCalled \/ teardowns[e] > 0

\* The step invokes onPhysicsStep or onRenderFrame of e.
Delivers(e) ==
    /\ Len(calls') = Len(calls) + 1
    /\ calls'[Len(calls')] \in {<<"physics", e>>, <<"render", e>>}

\* C25: when teardownRenderContext or teardown of an entity is called the
\* entity is neither in the spawnable map nor in the entity list; in client
\* mode teardown is called only after teardownRenderContext has been called
\* and has resolved; and once the teardown sequence of an entity has started
\* no onPhysicsStep and no onRenderFrame is delivered to it.
C25_DestroyOrder ==
    /\ [][\A e \in AllEnts :
              /\ (teardowns'[e] # teardowns[e] \/ tdrLookup'[e] # tdrLookup[e]) =>
                     /\ e \notin Range(entities')
                     /\ \A u \in Uids : spawnables'[u] # e
              /\ (renderContext /\ teardowns'[e] # teardowns[e]) =>
                     /\ tdrLookup[e] # NotCalled
                     /\ \E t \in tasks : t.op = "destroy" /\ t.ent = e /\ t.at = "tdRender"
              /\ TeardownStarted(e) => ~Delivers(e)]_vars
    /\ [](\A e \in AllEnts : TeardownStarted(e) => e \notin Range(entities))

\* A frame callback delivers a callback to one entity while the destroy of
\* another, called before the frame, waits for its teardown.
C25_Witness ==
    /\ pc \in {"inPhysics", "inRender"}
    /\ CallsMade = 0
    /\ \E t \in tasks : t.op = "destroy" /\ t.ent # cur /\ t.at \in {"tdRender", "teardown"}

\* C26: destroy of an entity that is not in the entity list calls neither
\* teardownRenderContext nor teardown, starts no wait and leaves the entity
\* list as it is; an entity instantiated once has teardown called at most
\* once, and never while an earlier destroy of it is still waiting for
\* teardownRenderContext.
C26_DestroyOnce ==
    /\ [][\A e \in AllEnts :
              (Destroy(e) /\ e \notin Range(entities)) =>
                  /\ entities' = entities
                  /\ teardowns' = teardowns
                  /\ tdrLookup' = tdrLookup
                  /\ tasks' = tasks]_vars
    /\ [](\A e \in AllEnts :
              /\ teardowns[e] <= 1
              /\ Cardinality({t \in tasks : t.op = "destroy" /\ t.ent = e}) <= 1)

\* In client mode a callback has called destroy of an entity whose earlier
\* destroy is waiting for teardown: teardown has been called once.
C26_Witness ==
    /\ ~isServer
    /\ InCallback
    /\ \E e \in Ents :
           /\ calls[Len(calls)] = <<"destroy", e>>
           /\ teardowns[e] = 1
           /\ \E t \in tasks : t.op = "destroy" /\ t.ent = e /\ t.at = "teardown"

\* A callback of the frame last run called destroy(e), and that call has
\* resolved: no destroy of e is waiting.
DestroyResolved(e) ==
    /\ pc = "idle"
    /\ <<"destroy", e>> \in Range(calls)
    /\ ~\E t \in tasks : t.op = "destroy" /\ t.ent = e

\* C27 as stated: once destroy(e) has resolved e is not in the entity list,
\* also when destroy(e) was called while the instantiate or the spawn of e
\* was waiting for init or initRenderContext (no instantiate(e) is called
\* after it).
C27_AsStated ==
    \A e \in Ents : DestroyResolved(e) => e \notin Range(entities)

\* An instantiate or spawn of e was waiting when shutdown() was called: e
\* had been handed to the game and was not in the entity list (SpecStop
\* makes no instantiate or spawn call after shutdown).
PendingAtShutdown(e) == shutdownAt # "no" /\ kind[e] # "none" /\ e \notin Range(snapEnts)

\* C28 as stated: when shutdown() has resolved and the instantiate and spawn
\* calls that were pending have settled, no entity whose init was pending at
\* shutdown is in the entity list or in the spawnable map.
C28_AsStated ==
    (ShutdownResolved /\ tasks = {}) =>
        \A e \in Ents :
            PendingAtShutdown(e) =>
                /\ e \notin Range(entities)
                /\ \A u \in Uids : lookup(u) # e

(***************************************************************************)
(* SpecReject: entities are instantiated and spawned, each once; init and  *)
(* initRenderContext resolve or reject; frame callbacks run in between.    *)
(***************************************************************************)
Reject == \E t \in tasks : InitRejected(t) \/ RenderRejected(t)

NextReject ==
    \/ \E e \in Ents : Idle /\ nextId < MaxCalls /\ kind[e] = "none" /\ Instantiate(e)
    \/ \E u \in Uids : Idle /\ nextId < MaxCalls /\ UidUnused(u) /\ u = NthUid(1) /\ Spawn(u)
    \/ Continue
    \/ Reject
    \/ \E d \in GameDeltas : frames < MaxGameFrames /\ OnTickBegin(d)
    \/ OnTick

SpecReject == InitBatch /\ [][NextReject]_vars

\* The instantiate or spawn of e has rejected.
HasRejected(e) == \E t \in tasks : t.ent = e /\ t.at = "rejected"

\* C29: an instantiate or spawn whose init or initRenderContext rejected is
\* rejected; its entity is not in the entity list and not in the spawnable
\* map and receives no callback; the rejection leaves the entity list and
\* the spawnable map as they were.
C29_Rejected ==
    /\ [][Reject => entities' = entities /\ spawnables' = spawnables]_vars
    /\ [][\A e \in Ents : HasRejected(e) => ~Delivers(e)]_vars
    /\ [](\A e \in Ents :
              HasRejected(e) =>
                  /\ e \notin Range(entities)
                  /\ \A u \in Uids : lookup(u) # e
                  /\ ~\E t \in tasks : t.ent = e /\ t.at # "rejected")

\* In client mode the initRenderContext of a spawned entity has rejected
\* after its init resolved, and a frame callback is calling an entity that
\* was in the list before.
C29_Witness ==
    /\ ~isServer
    /\ pc \in {"inPhysics", "inRender"}
    /\ cur \in Ents
    /\ \E e \in Ents :
           /\ HasRejected(e) /\ kind[e] = "spawnable"
           /\ data[e] # NotSet /\ renderData[e] = NotSet

(***************************************************************************)
(* SpecThrow: the scheduler of SpecTick with callbacks that may throw in   *)
(* the first frame.                                                        *)
(***************************************************************************)
NextThrow ==
    \/ NextTick
    \/ frames = 1 /\ CallbackThrows

SpecThrow == InitTick /\ [][NextThrow]_vars

\* A callback of the frame callback last run has thrown.
Thrown == \E i \in 1..Len(calls) : calls[i][1] = "throw"

\* C30: when onPhysicsStep or onRenderFrame throws, the frame callback ends:
\* nothing is invoked after the throw in that frame, neither a callback of a
\* later entity nor a further fixed tick nor the render pass; the
\* accumulator holds the accumulator of before plus the elapsed time, less
\* one period for each fixed tick begun, and the following frame starts from
\* it; a frame callback in which nothing threw leaves less than one period.
C30_Throw ==
    /\ \A i \in 1..Len(calls) : calls[i][1] = "throw" => (i = Len(calls) /\ pc = "idle")
    /\ pc = "idle" /\ frames > 0 =>
           /\ physicsTickAcc = SubPeriods(DblAdd(acc0, Dbl(frameDelta)), TicksRun)
           /\ ~Thrown => ~DblGeq(physicsTickAcc, physicsTickDelta)

\* The frame after one in which a physics callback threw with catch-up ticks
\* left: it has run those ticks although it was too short for one itself.
C30_Witness ==
    /\ frames = 2
    /\ pc = "idle"
    /\ ~Thrown
    /\ DblGeq(acc0, physicsTickDelta)
    /\ frameDelta < 16
    /\ TicksRun > 1
    /\ ~DblGeq(physicsTickAcc, physicsTickDelta)

(***************************************************************************)
(* SpecRender: a game of either mode in which entities are instantiated,   *)
(* spawned and destroyed, frame callbacks of 7 ms (no fixed tick) and of   *)
(* 17 ms (one fixed tick) run, and shutdown() is called.                   *)
(***************************************************************************)
RenderDeltas == {7, 17}

NextRender ==
    \/ \E e \in Ents :
           /\ BeforeShutdown /\ frames = 0 /\ nextId < MaxCalls
           /\ kind[e] = "none" /\ Instantiate(e)
    \/ \E u \in Uids :
           /\ BeforeShutdown /\ frames = 0 /\ nextId < MaxCalls
           /\ UidUnused(u) /\ u = NthUid(1) /\ Spawn(u)
    \/ \E e \in Range(entities) : BeforeShutdown /\ nextId < MaxCalls /\ Destroy(e)
    \/ \E d \in RenderDeltas : frames < MaxGameFrames /\ tasks = {} /\ OnTickBegin(d)
    \/ OnTick
    \/ Shutdown
    \/ ShutdownMapStep
    \/ ShutdownMapEnd
    \/ ShutdownResume
    \/ Continue

SpecRender == InitBatch /\ [][NextRender]_vars

\* onTick is inside its render pass.
InRenderPass == pc \in {"render", "inRender"}

\* Nothing of the render side has happened: no render data is stored, no
\* initRenderContext or teardownRenderContext is awaited or was called (the
\* latter is handed the render data destroy read), no onRenderFrame was
\* invoked and no render pass is running.
NoRenderSide ==
    /\ \A e \in AllEnts : renderData[e] = NotSet /\ tdrLookup[e] = NotCalled
    /\ ~\E t \in tasks : t.at \in {"initRender", "tdRender"}
    /\ ~\E i \in 1..Len(calls) : calls[i][1] = "render"
    /\ ~InRenderPass

\* C31: in server mode nothing of the render side ever happens, whatever
\* instantiate, spawn, destroy, frame callbacks and shutdown do; in client
\* mode every frame callback runs one render pass: the pass begins only when
\* the while loop has ended, is not left for another fixed tick, and the
\* callback returns only from it, also when it ran no fixed tick.
C31_RenderContext ==
    /\ [](isServer => NoRenderSide)
    /\ [][~isServer =>
              /\ (~InRenderPass /\ InRenderPass') =>
                     (pc = "while" /\ ~DblGeq(physicsTickAcc, physicsTickDelta))
              /\ (InRenderPass /\ ~InRenderPass') => pc' = "idle"
              /\ (pc \in {"while", "listeners", "inListener", "entities", "inPhysics"}) =>
                     pc' # "idle"]_vars

\* A server-mode game has run a frame callback with one fixed tick that
\* stepped a listed entity, and has destroyed another entity whose teardown
\* was called.
C31_Witness ==
    /\ isServer /\ FrameDone
    /\ \E e \in Ents : CountOf(<<"physics", e>>) = 1
    /\ \E e \in Ents : teardowns[e] = 1 /\ data[e] # NotSet

\* A client-mode frame callback that ran no fixed tick has rendered an entity.
C31_ZeroTicksRendered ==
    /\ ~isServer /\ FrameDone /\ TicksRun = 0
    /\ \E e \in Ents : CountOf(<<"render", e>>) = 1

(***************************************************************************)
(* SpecSplit: runs of frame callbacks from an empty accumulator.  The      *)
(* elapsed times are such that one total is reached by different splits:   *)
(* 200 ms in one frame, or as 34 ms and 166 ms.                            *)
(***************************************************************************)
SplitDeltas == {34, 166, 200}

NextSplit ==
    \/ \E d \in SplitDeltas : frames < MaxFrames /\ OnTickBegin(d)
    \/ OnTick

SpecSplit == InitTick /\ [][NextSplit]_vars

\* client.ts:304-305: the while loop on an accumulator acc after n ticks;
\* the result is the number of ticks and the accumulator when the loop ends.
RECURSIVE Drain(_, _)
Drain(acc, n) ==
    IF DblGeq(acc, physicsTickDelta)
    THEN Drain(DblSub(acc, physicsTickDelta), n + 1)
    ELSE <<n, acc>>

\* What a run of one frame callback that is fed `total` ms does from an
\* empty accumulator (client.ts:302-306).
OneFrame(total) == Drain(DblAdd(Dbl(0), Dbl(total)), 0)

\* n times x, exactly.
ExactTimes(x, n) ==
    LET m3 == x[4] * n
        m2 == x[3] * n + (m3 \div LimbBase)
        m1 == x[2] * n + (m2 \div LimbBase)
    IN  <<x[1] * n + (m1 \div LimbBase), m1 % LimbBase, m2 % LimbBase, m3 % LimbBase>>

\* |x - y| is less than 2^-32.
Near(x, y) ==
    LET d == IF DblGeq(x, y) THEN ExactSub(x, y) ELSE ExactSub(y, x)
    IN  d[1] = 0 /\ d[2] = 0 /\ d[3] = 0

NextResync ==
    \/ NextSync
    \/ SyncEntities

SpecResync == InitSync /\ [][NextResync]_vars

\* The entity that held the synced value was a live spawnable, a spawned
\* entity of the entity list, when syncEntities was called.
OwnerLive == lastOp.found

\* C33 as stated: in a game whose network handle has been installed, sync()
\* on a Live synced value makes exactly one send, of the current value, and
\* syncEntities(game) makes exactly one send of the synced value when the
\* entity holding it is a live spawnable.
C33_AsStated ==
    /\ LiveInstalled("sync") =>
           Len(lastOp.sent) = 1 /\ lastOp.sent[1][2] = lastOp.was
    /\ (LiveInstalled("syncEntities") /\ OwnerLive) =>
           Len(lastOp.sent) = 1 /\ lastOp.sent[1][2] = lastOp.was

\* syncEntities(game) calls sync() exactly once on the synced value of a
\* live spawnable.
C33_OneSyncCall ==
    (lastOp.name = "syncEntities" /\ ~lastOp.wasDestroyed /\ OwnerLive) =>
        Len(lastOp.hooked) = 1

(***************************************************************************)
(* The inbound setter on a destroyed synced value (SpecSync).              *)
(***************************************************************************)
\* C34 as stated: an inbound update that reaches a destroyed synced value
\* through updateSyncedValue and the setter fails with the destroyed-value
\* error and leaves the stored value as it was.
C34_AsStated ==
    (lastOp.name = "update" /\ lastOp.found /\ lastOp.wasDestroyed) =>
        lastOp.threw /\ svValue = lastOp.was

(***************************************************************************)
(* SpecNested: SpecSync with in-place mutations of the object that was the *)
(* stored value before the last replacement.                               *)
(***************************************************************************)
NextNested ==
    \/ NextSync
    \/ \E c \in 0..MaxContent : MutateReplaced(c)

SpecNested == InitSync /\ [][NextNested]_vars

\* C35 as stated: an in-place mutation of the object a Live synced value
\* holds reaches the outbound sync once, with the current value, however
\* the object came to be stored; a mutation of an object that has been
\* replaced as the value reaches it not at all.
C35_AsStated ==
    /\ (lastOp.name = "mutate" /\ ~lastOp.wasDestroyed) =>
           lastOp.hooked = <<lastOp.arg>> /\ svValue = lastOp.arg
    /\ lastOp.name = "mutateReplaced" =>
           ~lastOp.threw /\ lastOp.hooked = <<>>

\* The first half of C35 alone: mutations of the stored object.
C35_StoredObject ==
    (lastOp.name = "mutate" /\ ~lastOp.wasDestroyed) => lastOp.hooked = <<lastOp.arg>>

\* The second half of C35 alone: mutations of a replaced object.
C35_ReplacedObject ==
    lastOp.name = "mutateReplaced" => ~lastOp.threw /\ lastOp.hooked = <<>>

(***************************************************************************)
(* The public entity list game.entities (SpecLife).                        *)
(***************************************************************************)
\* No instantiate, spawn or destroy call is pending.
Settled == tasks = {}

\* The live entities: those of the entity list.
LiveEntities == Range(entities)

\* C36 as stated: when no call is pending, game.entities holds every live
\* entity exactly once and nothing else, so its length is the number of
\* live entities.
C36_AsStated ==
    Settled =>
        /\ \A e \in AllEnts :
               Occurrences(GameEntitiesArray, e) = IF e \in LiveEntities THEN 1 ELSE 0
        /\ Len(GameEntitiesArray) = Cardinality(LiveEntities)

(***************************************************************************)
(* SpecDup: spawn and destroy calls between tasks, where a definition may  *)
(* supply a UID that a spawned entity already has.                         *)
(***************************************************************************)
NextDup ==
    \/ \E u \in Uids : Idle /\ nextId < MaxCalls /\ Spawn(u)
    \/ \E e \in Ents : Idle /\ nextId < MaxCalls /\ e \in Range(entities) /\ Destroy(e)
    \/ Continue

SpecDup == InitBatch /\ [][NextDup]_vars

\* e is a spawned entity of the entity list with UID u.
LiveWithUid(e, u) == e \in LiveSpawnables /\ uidOf[e] = u

\* C37 as stated: when no call is pending, lookup(u) is e exactly when e is
\* a spawned entity of the entity list with UID u, also after two
\* definitions supplied the same UID and after one of two such entities was
\* destroyed.
C37_AsStated ==
    Settled =>
        \A u \in Uids, e \in Ents : lookup(u) = e <=> LiveWithUid(e, u)

\* No live spawned entity is unreachable by its UID after a destroy of
\* another entity.
C37_Reachable ==
    (Settled /\ \E d \in Ents : teardowns[d] > 0) =>
        \A e \in LiveSpawnables : lookup(uidOf[e]) # None

(***************************************************************************)
(* The physics world and the registration sets (SpecPhysics).              *)
(***************************************************************************)
\* Body b is in the registration set of some entity.
Registered(b) == \E u \in Uids : b \in physEntities[u]

\* C38 as stated: a body is in the physics world if and only if it is in
\* the registration set of some entity.
C38_AsStated ==
    \A b \in Bodies : world[b] > 0 <=> Registered(b)

\* The particular case of C38: an unregister call made for an entity that
\* does not own the body leaves the body in the world.
C38_NotOwner ==
    (physOut.name = "unregister" /\ ~physOut.threw) =>
        \A b \in physOut.bodies : Registered(b) => world[b] > 0

(***************************************************************************)
(* Slots of the entity list (SpecLife, where instantiate may be called on  *)
(* an entity that was instantiated before).                                *)
(***************************************************************************)
\* C39 as stated: an entity is in the entity list at most once, and in every
\* frame callback it has received at most one onPhysicsStep per fixed tick.
C39_AsStated ==
    \A e \in AllEnts :
        /\ Occurrences(entities, e) <= 1
        /\ CountOf(<<"physics", e>>) <= TicksRun

\* The second half of C39 alone, on the frame callbacks.
C39_OneStepPerTick ==
    \A e \in AllEnts : CountOf(<<"physics", e>>) <= TicksRun

(***************************************************************************)
(* SpecPlatform: a platform is stepped, in a game of either mode, with any *)
(* local player state and any net players from the sets below; the values  *)
(* lie on both sides of every comparison the step makes.  The net players  *)
(* stand where they are from the first step on; the local player moves.    *)
(***************************************************************************)
PlayerYs == {0 - 30, 0 - 29}
PlayerVys == {0, 1}
NetXs == {0 - 60, 59, 60}
NetYs == {0 - 350, 0 - 349, 0 - 29}

NetPlayerLists == UNION {[1..k -> NetXs \X NetYs] : k \in 0..MaxNetPlayers}

NextPlatform ==
    \E hasPlayer \in BOOLEAN, isCrouching \in BOOLEAN, py \in PlayerYs, vy \in PlayerVys,
       netPlayers \in IF platStep.called THEN {platStep.netPlayers} ELSE NetPlayerLists :
        PlatformStep(hasPlayer, isCrouching, py, vy, netPlayers)

SpecPlatform == InitBatch /\ [][NextPlatform]_vars

\* Bit k (0..31) of the 32-bit word of the number n.
BitOf(n, k) ==
    LET h == Halves(n)
    IN  IF k < 16 THEN (h[2] \div 2^k) % 2 ELSE (h[1] \div 2^(k - 16)) % 2

\* Some net player is above the platform, within its horizontal bounds as
\* the step measures them, and less than 350 units above it.
SomeNetPlayerOnPlatform ==
    \E i \in 1..Len(platStep.netPlayers) : NetPlayerOnPlatform(platStep.netPlayers[i])

\* The last step ran on a client with a local player present.
SteppedWithPlayer == platStep.called /\ ~isServer /\ platStep.hasPlayer

\* C40: after a step on a client with a local player, the mask read as a
\* 32-bit word has bit 1 (0x002) set exactly when the platform is active,
\* bit 2 (0x004) set exactly when some net player is on the platform, and
\* every other bit set, and the platform is not active if the player was
\* crouching or not above it; a step on a server or without a local player
\* leaves the active flag and the mask as they were.
C40_PlatformMask ==
    /\ SteppedWithPlayer =>
           /\ BitOf(bodyMask, 1) = 1 <=> isPlatformActive
           /\ BitOf(bodyMask, 2) = 1 <=> SomeNetPlayerOnPlatform
           /\ \A k \in 0..31 \ {1, 2} : BitOf(bodyMask, k) = 1
           /\ (platStep.isCrouching \/ ~AbovePlatform(platStep.py)) => ~isPlatformActive
    /\ (platStep.called /\ ~SteppedWithPlayer) =>
           isPlatformActive = platStep.wasActive /\ bodyMask = platStep.wasMask

\* A step on a client left the platform inactive and colliding with net
\* players: the second net player of two is on the platform, the first is
\* not; the mask is the number -3, the word 0xFFFFFFFD.
C40_Witness ==
    /\ SteppedWithPlayer
    /\ platStep.wasActive /\ ~isPlatformActive
    /\ Len(platStep.netPlayers) = 2
    /\ ~NetPlayerOnPlatform(platStep.netPlayers[1])
    /\ NetPlayerOnPlatform(platStep.netPlayers[2])
    /\ bodyMask = <<0 - 1, 65533>>

====
